---- MODULE Spec2Model ----
(***************************************************************************)
(* A state-machine model of the world-converter tool of                    *)
(* hytopia-scene-builder:                                                  *)
(*   - the jmc2obj export window (ExportWindow.java): option widgets, the  *)
(*     global Options they are copied into, the export thread;             *)
(*   - the jmc2obj settings window (Settings, src/unnamed/part_000): the   *)
(*     resource-pack list and the registry reloads;                        *)
(*   - program start (Main.java);                                          *)
(*   - the browser region selector (RegionSelector.jsx): React state,      *)
(*     effects and handlers;                                               *)
(*   - the export engine the window starts (scheduler, worker pool, chunk  *)
(*     processor, aggregator) and the console progress bar of Main.java;   *)
(*   - the world map selector (WorldMapSelector of RegionSelector.jsx).    *)
(* Each subsystem has its own specification (SpecOptions, SpecExport,      *)
(* SpecSettings, SpecMain, SpecRegion, SpecDrag, SpecEngine, SpecProgress, *)
(* SpecMap) over the one set of variables.                                 *)
(***************************************************************************)
EXTENDS Integers, Sequences, FiniteSets, TLC

VARIABLES
    chk,             \* ExportWindow: JCheckBox.isSelected(), by checkbox
    enabled,         \* ExportWindow: JCheckBox.isEnabled(), by checkbox
    rdbtn,           \* the selected offset radio button
    txtX,            \* text of txtX
    txtZ,            \* text of txtZ
    spinnerThreads,  \* spinnerThreads.getValue()
    prefs,           \* the Preferences node the export window saves to
    opt,             \* org.jmc.Options: the static export options
    btnStartExport,  \* btnStartExport.isEnabled()
    btnForceStop,    \* btnForceStop.isEnabled()
    exportThread,    \* the exportThread field: NoThread (null) or a thread
    threads,         \* every export thread runExport may create
    dlg,             \* the modal dialog the Start Export handler waits in
    files,           \* the files that exist in the output directory
    listPacks,       \* Settings: the resource-pack list, first entry on top
    selected,        \* Settings: the selected row of the list, 0 for none
    usePackDefault,  \* Settings: chckbxUsePackDefault.isSelected()
    packPrefs,       \* Settings: the stored RESOURCE_PACKS and USE_DEFAULT_RESOURCE_PACK
    resourcePacks,   \* Options.resourcePacks
    registry,        \* Registries: the packs of its last load, and a reload bit
    mcJar,           \* Filesystem.getMinecraftJar() finds a jar
    updated,         \* history: the last Settings listener that rebuilt the packs
    mode,            \* Options.uiMode: "GUI" or "CONSOLE"
    mainPc,          \* where Main.main stands
    initialized,     \* the initialize() calls that returned, in call order
    windowUp,        \* new MainWindow() has returned: the windows exist
    consoleExport,   \* the ObjExporter.export call of runConsole
    worldData,       \* RegionSelector prop: the world bounds, when known
    initialRegion,   \* RegionSelector prop: the region to start from, if any
    bounds,          \* RegionSelector state: the selected bounds
    size,            \* RegionSelector state
    center,          \* RegionSelector state
    offsets,         \* RegionSelector state
    isValid,         \* RegionSelector state
    prevBoundsRef,   \* RegionSelector ref: the bounds last reported
    prevOffsetsRef,  \* RegionSelector ref: the offsets last reported
    worldInitializedRef,  \* RegionSelector ref
    render,          \* React: the render that is due, and what the last one saw
    timers,          \* the setTimeout callbacks that are waiting
    lastReport,      \* history: the last call of onRegionSelected
    lastTrim,        \* history: the last report that clipped the bounds
    dragOperation,   \* RegionSelector state: the edge being dragged, or none
    dragStartCoords, \* RegionSelector state
    dragStartBounds, \* RegionSelector state: the bounds at the drag start, or none
    isDragging,      \* RegionSelector state
    justFinishedDrag,  \* RegionSelector state
    yDragOperation,  \* RegionSelector state: the height handle being dragged
    docListeners,    \* the mouseup listeners on document, with what they closed over
    clearTimers,     \* the 100 ms timers that will clear justFinishedDrag
    dragEvents,      \* how many mouse-down and mouse-move events drags have had
    job,             \* the ExportJob of the run: bounds, chunk size, threads, chunks
    world,           \* the World Data Source: the coordinates it cannot decode
    queue,           \* scheduler: the chunk jobs no worker has claimed yet
    workers,         \* worker pool: each worker's position, chunk and processor
    cancelFlag,      \* the shared cancellation flag
    failed,          \* scheduler: the chunks whose exception it captured
    arrived,         \* aggregator: the fragments, in the order they arrived
    result,          \* the ExportResult
    claims,          \* history: how often each chunk job was claimed
    threw,           \* history: the chunks whose processing raised an exception
    last,            \* ConsoleProgress.last
    out,             \* history: what the bar printed last on System.out holds
    callers,         \* the threads inside ConsoleProgress.setProgress
    selectedBounds,  \* WorldMapSelector prop: the selection the parent passes
    mapDragging,     \* WorldMapSelector state isDragging
    mapResizing,     \* WorldMapSelector state isResizing
    resizeDirection, \* WorldMapSelector state
    pxPerBlock,      \* WorldMapSelector: pixels of the map per block, at its zoom
    selection,       \* the element of selectionRef: its style and data-dragging
    gesture,         \* what the document listeners of a move or resize closed over
    mapTimers,       \* the 50 ms timers of WorldMapSelector, oldest first
    reported,        \* history: the last call of onBoundsChange
    gestures         \* how many mouse-downs and prop changes there have been

optVars == <<chk, enabled, rdbtn, txtX, txtZ, spinnerThreads, prefs, opt>>

exportVars == <<btnStartExport, btnForceStop, exportThread, threads, dlg, files>>

settingsVars ==
    <<listPacks, selected, usePackDefault, packPrefs, resourcePacks, registry, mcJar,
      updated>>

mainVars == <<mode, mainPc, initialized, windowUp, consoleExport>>

regionVars ==
    <<worldData, initialRegion, bounds, size, center, offsets, isValid, prevBoundsRef,
      prevOffsetsRef, worldInitializedRef, render, timers, lastReport, lastTrim>>

dragVars ==
    <<dragOperation, dragStartCoords, dragStartBounds, isDragging, justFinishedDrag,
      yDragOperation, docListeners, clearTimers, dragEvents>>

engineVars ==
    <<job, world, queue, workers, cancelFlag, failed, arrived, result, claims, threw>>

progressVars == <<last, out, callers>>

mapVars ==
    <<selectedBounds, mapDragging, mapResizing, resizeDirection, pxPerBlock,
      selection, gesture, mapTimers, reported, gestures>>

\* what no listener and no thread of the export window touches
outsideExportWindow ==
    <<settingsVars, mainVars, regionVars, dragVars, engineVars, progressVars,
      mapVars>>

\* what no listener of the Settings window touches
outsideSettings ==
    <<optVars, exportVars, mainVars, regionVars, dragVars, engineVars, progressVars,
      mapVars>>

\* what Main.main does not touch
outsideMain ==
    <<optVars, exportVars, settingsVars, regionVars, dragVars, engineVars,
      progressVars, mapVars>>

\* what the region selector does not touch
outsideRegion ==
    <<optVars, exportVars, settingsVars, mainVars, engineVars, progressVars,
      mapVars>>

\* what the export engine does not touch
outsideEngine ==
    <<optVars, exportVars, settingsVars, mainVars, regionVars, dragVars, progressVars,
      mapVars>>

\* what the console progress bar does not touch
outsideProgress ==
    <<optVars, exportVars, settingsVars, mainVars, regionVars, dragVars, engineVars,
      mapVars>>

\* what WorldMapSelector does not touch
outsideMap ==
    <<optVars, exportVars, settingsVars, mainVars, regionVars, dragVars, engineVars,
      progressVars>>

vars ==
    <<optVars, exportVars, settingsVars, mainVars, regionVars, dragVars, engineVars,
      progressVars, mapVars>>

\* how many export threads one behaviour may start
MaxRuns == 3

\* how many chunk jobs one export has
NumChunks == 2

Min(a, b) == IF a < b THEN a ELSE b

(***************************************************************************)
(* ExportWindow: widgets                                                   *)
(***************************************************************************)

\* the JCheckBox fields of ExportWindow
CheckBoxes ==
    {"RenderWorldSides", "RenderBiomes", "RenderEntities", "RenderUnknownBlocks",
     "SeparateMat", "SeparateMatOccl", "SeparateChunk", "RandBlockVariation",
     "DoubleSidedFaces", "SeparateBlock", "SeparateBlockOccl", "OptimiseGeo",
     "ConvertOreTo", "MergeVerticies", "SeparateAlphaTexture",
     "CombineAllTextures", "SingleMat", "UseLastSaveLoc", "ExportSeparateLight",
     "ExportNormalMaps", "ExportSpecularMaps", "ExportTextures", "ObjUseGroup"}

\* the checkboxes of holderSingleTexOpts, which the constructor never adds to
\* the window ("TODO fix single tex export"): no click reaches them
HiddenBoxes == {"CombineAllTextures", "ExportSeparateLight", "SingleMat"}

\* the checkboxes whose stored value and whose clicks the model varies; the
\* others, the offset widgets and the scale fields keep what loadSettings
\* gives them
VariedBoxes ==
    {"SeparateMat", "SeparateChunk", "SeparateBlock", "OptimiseGeo",
     "MergeVerticies", "RenderBiomes"}

\* Integer.parseInt on the texts of the offset fields; ok = FALSE is the
\* NumberFormatException
ParseInt(t) ==
    CASE t = "0" -> [ok |-> TRUE, v |-> 0]
      [] t = "7" -> [ok |-> TRUE, v |-> 7]
      [] OTHER -> [ok |-> FALSE, v |-> 0]

\* "" + int, for the offsets the preferences can hold
IntToText(n) == IF n = 7 THEN "7" ELSE "0"

\* SpinnerNumberModel(8, 1, 512, 1): minimum, maximum and step of spinnerThreads
SPINNER_MIN == 1

SPINNER_MAX == 512

\* the default of prefs.getInt("EXPORT_THREADS", 8)
DEFAULT_EXPORT_THREADS == 8

\* values the stored EXPORT_THREADS preference may hold: any int
StoredThreads == {-1, 0, 1, DEFAULT_EXPORT_THREADS, SPINNER_MAX, SPINNER_MAX + 1}

\* prefs.getBoolean(key, default) of loadSettings: the default per checkbox
PrefDefault(b) ==
    b \in {"RenderUnknownBlocks", "RenderBiomes", "RenderEntities", "ConvertOreTo",
           "SeparateMatOccl", "OptimiseGeo", "ExportTextures"}

\* the preferences key loadSettings reads each checkbox from
PrefKey(b) ==
    CASE b = "RenderUnknownBlocks" -> "RENDER_UNKNOWN"
      [] b = "RenderWorldSides" -> "RENDER_SIDES"
      [] b = "RenderBiomes" -> "RENDER_BIOMES"
      [] b = "RenderEntities" -> "RENDER_ENTITIES"
      [] b = "ConvertOreTo" -> "CONVERT_ORES"
      [] b = "SeparateMat" -> "OBJ_PER_MTL"
      [] b = "SeparateMatOccl" -> "OBJ_PER_MTL_OCCL"
      [] b = "SeparateChunk" -> "OBJ_PER_CHUNK"
      [] b = "SeparateBlock" -> "OBJ_PER_BLOCK"
      [] b = "SeparateBlockOccl" -> "OBJ_PER_BLOCK_OCCL"
      [] b = "RandBlockVariation" -> "RAND_BLOCK_VARIATION"
      [] b = "DoubleSidedFaces" -> "DOUBLE_SINGLE_FACES"
      [] b = "OptimiseGeo" -> "OPTIMISE_GEO"
      [] b = "MergeVerticies" -> "REMOVE_DUPLICATES"
      [] b = "UseLastSaveLoc" -> "USE_LAST_SAVE_LOC"
      [] b = "ExportTextures" -> "TEXTURE_EXPORT"
      [] b = "SeparateAlphaTexture" -> "TEXTURE_ALPHA"
      [] b = "ExportNormalMaps" -> "TEXTURE_NORMAL"
      [] b = "ExportSpecularMaps" -> "TEXTURE_SPECULAR"
      [] b = "ExportSeparateLight" -> "TEXTURE_LIGHT"
      [] b = "CombineAllTextures" -> "TEXTURE_MERGE"
      [] b = "SingleMat" -> "SINGLE_MTL"
      [] OTHER -> "OBJ_USE_GROUP"

BoolKeys == {PrefKey(b) : b \in CheckBoxes}

\* a preferences node: the checkbox keys, the thread count, the offset, and
\* the last export: LAST_EXPORT_PATH is TRUE when the key names a directory
\* that exists, LAST_USED_NAME is <<>> when the key is absent
StoredPrefs ==
    {[k \in BoolKeys \cup {"EXPORT_THREADS", "OFFSET_TYPE", "OFFSET_X", "OFFSET_Z",
                            "LAST_EXPORT_PATH", "LAST_USED_NAME"} |->
        CASE k = "EXPORT_THREADS" -> t
          [] k = "LAST_EXPORT_PATH" -> FALSE
          [] k = "LAST_USED_NAME" -> <<>>
          [] k = "OFFSET_TYPE" -> 0
          [] k \in {"OFFSET_X", "OFFSET_Z"} -> 0
          [] OTHER ->
              LET b == CHOOSE c \in CheckBoxes : PrefKey(c) = k
              IN  IF b \in VariedBoxes THEN b \in on ELSE PrefDefault(b)] :
        t \in StoredThreads, on \in SUBSET VariedBoxes}

(***************************************************************************)
(* ExportWindow: updateEnabledSettings, updateOptions, load and save       *)
(***************************************************************************)

\* updateEnabledSettings without the lines that disable the per-material and
\* per-chunk checkboxes while per-block is selected
UpdateEnabledSettingsKeepsGrouping(c, e) ==
    LET e1 == [e EXCEPT !["ExportSeparateLight"] = FALSE,
                        !["SingleMat"] = FALSE,
                        !["SeparateMat"] = TRUE,
                        !["SeparateChunk"] = TRUE,
                        !["SeparateBlockOccl"] = c["SeparateBlock"],
                        !["OptimiseGeo"] = ~c["SeparateBlock"]]
    IN  [e1 EXCEPT !["SeparateMatOccl"] = c["SeparateMat"]]

\* updateEnabledSettings without the line that disables the optimise-geometry
\* checkbox while per-block is selected
UpdateEnabledSettingsKeepsOptimise(c, e) ==
    LET e1 == [e EXCEPT !["ExportSeparateLight"] = FALSE,
                        !["SingleMat"] = FALSE,
                        !["SeparateMat"] = ~c["SeparateBlock"],
                        !["SeparateChunk"] = ~c["SeparateBlock"],
                        !["SeparateBlockOccl"] = c["SeparateBlock"],
                        !["OptimiseGeo"] = TRUE]
    IN  [e1 EXCEPT !["SeparateMatOccl"] = c["SeparateMat"] /\ e1["SeparateMat"]]

\* updateEnabledSettings: the isEnabled() of every checkbox afterwards
UpdateEnabledSettings(c, e) ==
    LET e1 == [e EXCEPT !["ExportSeparateLight"] = FALSE,
                        !["SingleMat"] = FALSE,
                        !["OptimiseGeo"] = TRUE]
        e2 == IF c["SeparateBlock"]
              THEN [e1 EXCEPT !["SeparateBlockOccl"] = TRUE,
                              !["SeparateMat"] = FALSE,
                              !["SeparateChunk"] = FALSE,
                              !["OptimiseGeo"] = FALSE]
              ELSE [e1 EXCEPT !["SeparateBlockOccl"] = FALSE,
                              !["SeparateMat"] = TRUE,
                              !["SeparateChunk"] = TRUE,
                              !["OptimiseGeo"] = TRUE]
    IN  [e2 EXCEPT !["SeparateMatOccl"] = c["SeparateMat"] /\ e2["SeparateMat"]]

\* the offset part of updateOptions: one try block around both parses, so a
\* NumberFormatException on txtX leaves offsetZ unread
ParseOffsets(tx, tz, o) ==
    LET skipX == tx = "" \/ tx = "-"
        skipZ == tz = "" \/ tz = "-"
    IN  IF ~skipX /\ ~ParseInt(tx).ok
        THEN [x |-> o.offsetX, z |-> o.offsetZ]
        ELSE [x |-> IF skipX THEN o.offsetX ELSE ParseInt(tx).v,
              z |-> IF skipZ \/ ~ParseInt(tz).ok THEN o.offsetZ ELSE ParseInt(tz).v]

\* updateOptions: Options after the widgets are copied into it
UpdateOptions(c, e, r, tx, tz, sp, o) ==
    [o EXCEPT
        !.offsetX = ParseOffsets(tx, tz, o).x,
        !.offsetZ = ParseOffsets(tx, tz, o).z,
        !.offsetType = IF r = "Center" THEN "CENTER"
                       ELSE IF r = "Custom" THEN "CUSTOM" ELSE "NONE",
        !.renderSides = c["RenderWorldSides"],
        !.renderBiomes = c["RenderBiomes"],
        !.renderEntities = c["RenderEntities"],
        !.renderUnknown = c["RenderUnknownBlocks"],
        !.objectPerMaterial = c["SeparateMat"] /\ e["SeparateMat"],
        !.objectPerMaterialOcclusion = c["SeparateMatOccl"],
        !.objectPerChunk = c["SeparateChunk"] /\ e["SeparateChunk"],
        !.objectPerBlock = c["SeparateBlock"],
        !.objectPerBlockOcclusion = c["SeparateBlockOccl"],
        !.randBlockVariations = c["RandBlockVariation"],
        !.doubleSidedFaces = c["DoubleSidedFaces"],
        !.optimiseGeometry = c["OptimiseGeo"] /\ e["OptimiseGeo"],
        !.convertOres = c["ConvertOreTo"],
        !.removeDuplicates = c["MergeVerticies"],
        !.useLastSaveLoc = c["UseLastSaveLoc"],
        !.exportTex = c["ExportTextures"],
        !.textureAlpha = c["SeparateAlphaTexture"],
        !.textureNormal = c["ExportNormalMaps"],
        !.textureSpecular = c["ExportSpecularMaps"],
        !.textureMerge = c["CombineAllTextures"],
        !.textureLight = c["ExportSeparateLight"] /\ e["ExportSeparateLight"],
        !.singleMaterial = c["SingleMat"] /\ e["SingleMat"],
        !.exportThreads = sp,
        !.objUseGroup = c["ObjUseGroup"]]

\* org.jmc.Options before the export window first writes it; the file names
\* and the output directory are set by the Start Export action only
OptionsDefaults ==
    [offsetX |-> 0, offsetZ |-> 0, offsetType |-> "NONE",
     renderSides |-> FALSE, renderBiomes |-> FALSE, renderEntities |-> FALSE,
     renderUnknown |-> FALSE, objectPerMaterial |-> FALSE,
     objectPerMaterialOcclusion |-> FALSE, objectPerChunk |-> FALSE,
     objectPerBlock |-> FALSE, objectPerBlockOcclusion |-> FALSE,
     randBlockVariations |-> FALSE, doubleSidedFaces |-> FALSE,
     optimiseGeometry |-> FALSE, convertOres |-> FALSE, removeDuplicates |-> FALSE,
     useLastSaveLoc |-> FALSE, exportTex |-> FALSE, textureAlpha |-> FALSE,
     textureNormal |-> FALSE, textureSpecular |-> FALSE, textureMerge |-> FALSE,
     textureLight |-> FALSE, singleMaterial |-> FALSE, exportThreads |-> 0,
     objUseGroup |-> FALSE, objFileName |-> <<>>, mtlFileName |-> <<>>]

\* the radio button loadSettings selects for a stored OFFSET_TYPE
OffsetButton(n) == IF n = 1 THEN "Center" ELSE IF n = 2 THEN "Custom" ELSE "None"

\* loadSettings, as the constructor calls it on freshly built widgets (every
\* checkbox enabled): the widgets and Options afterwards. spinnerThreads.setValue
\* stores the preference as it is: SpinnerNumberModel.setValue checks no bounds
LoadSettings(p) ==
    LET c == [b \in CheckBoxes |-> p[PrefKey(b)]]
        e == UpdateEnabledSettings(c, [b \in CheckBoxes |-> TRUE])
        r == OffsetButton(p["OFFSET_TYPE"])
        tx == IntToText(p["OFFSET_X"])
        tz == IntToText(p["OFFSET_Z"])
        sp == p["EXPORT_THREADS"]
    IN  [chk |-> c, enabled |-> e, rdbtn |-> r, txtX |-> tx, txtZ |-> tz,
         spinnerThreads |-> sp,
         opt |-> UpdateOptions(c, e, r, tx, tz, sp, OptionsDefaults)]

\* the prefs.put* calls of saveSettings on the modelled keys. OBJ_PER_MTL,
\* OBJ_PER_CHUNK and OPTIMISE_GEO store the checkbox, the others the option;
\* OBJ_PER_BLOCK_OCCL, TEXTURE_ALPHA.. are as in the source
SavedPrefs(p, c, o) ==
    [p EXCEPT
        !["OFFSET_X"] = o.offsetX,
        !["OFFSET_Z"] = o.offsetZ,
        !["OFFSET_TYPE"] = IF o.offsetType = "NONE" THEN 0
                           ELSE IF o.offsetType = "CENTER" THEN 1 ELSE 2,
        !["RENDER_SIDES"] = o.renderSides,
        !["RENDER_BIOMES"] = o.renderBiomes,
        !["RENDER_ENTITIES"] = o.renderEntities,
        !["RENDER_UNKNOWN"] = o.renderUnknown,
        !["OBJ_PER_MTL"] = c["SeparateMat"],
        !["OBJ_PER_MTL_OCCL"] = o.objectPerMaterialOcclusion,
        !["OBJ_PER_CHUNK"] = c["SeparateChunk"],
        !["OBJ_PER_BLOCK"] = o.objectPerBlock,
        !["RAND_BLOCK_VARIATION"] = o.randBlockVariations,
        !["DOUBLE_SINGLE_FACES"] = o.doubleSidedFaces,
        !["OPTIMISE_GEO"] = c["OptimiseGeo"],
        !["CONVERT_ORES"] = o.convertOres,
        !["SINGLE_MTL"] = o.singleMaterial,
        !["REMOVE_DUPLICATES"] = o.removeDuplicates,
        !["USE_LAST_SAVE_LOC"] = o.useLastSaveLoc,
        !["TEXTURE_EXPORT"] = o.exportTex,
        !["TEXTURE_ALPHA"] = o.textureAlpha,
        !["TEXTURE_NORMAL"] = o.textureNormal,
        !["TEXTURE_SPECULAR"] = o.textureSpecular,
        !["TEXTURE_LIGHT"] = o.textureLight,
        !["TEXTURE_MERGE"] = o.textureMerge,
        !["EXPORT_THREADS"] = o.exportThreads,
        !["OBJ_USE_GROUP"] = o.objUseGroup]

\* saveSettings on the widget state (c, r, tx, tz, sp): updateEnabledSettings,
\* updateOptions, then the preferences
SaveSettings(c, r, tx, tz, sp) ==
    LET e == UpdateEnabledSettings(c, enabled)
        o == UpdateOptions(c, e, r, tx, tz, sp, opt)
    IN  /\ chk' = c
        /\ enabled' = e
        /\ rdbtn' = r
        /\ txtX' = tx
        /\ txtZ' = tz
        /\ spinnerThreads' = sp
        /\ opt' = o
        /\ prefs' = SavedPrefs(prefs, c, o)

\* the state the ExportWindow constructor leaves: loadSettings on the stored
\* preferences p
ExportWindowInit(p) ==
    LET s == LoadSettings(p)
    IN  /\ chk = s.chk
        /\ enabled = s.enabled
        /\ rdbtn = s.rdbtn
        /\ txtX = s.txtX
        /\ txtZ = s.txtZ
        /\ spinnerThreads = s.spinnerThreads
        /\ opt = s.opt
        /\ prefs = p

(***************************************************************************)
(* ExportWindow: the listeners of addActionListenersToAll                  *)
(***************************************************************************)

\* genericSaveAction on a checkbox: a click flips an enabled, visible checkbox,
\* then saveSettings. A modal dialog of the Start Export handler blocks the
\* window's input while it is open (dlg.pc # "idle")
ClickCheckBox(b) ==
    /\ dlg.pc = "idle"
    /\ enabled[b]
    /\ b \notin HiddenBoxes
    /\ SaveSettings([chk EXCEPT ![b] = ~chk[b]], rdbtn, txtX, txtZ, spinnerThreads)
    /\ UNCHANGED <<outsideExportWindow, exportVars>>

\* genericSaveChange on spinnerThreads: an arrow moves the value by the step
\* unless the result leaves minimum..maximum (getNextValue/getPreviousValue
\* return null), the editor commits a typed value of minimum..maximum only
SpinnerChange(v) ==
    /\ dlg.pc = "idle"
    /\ v \in SPINNER_MIN..SPINNER_MAX
    /\ v # spinnerThreads
    /\ SaveSettings(chk, rdbtn, txtX, txtZ, v)
    /\ UNCHANGED <<outsideExportWindow, exportVars>>

\* the values the model lets the user give the spinner: one arrow step either
\* way, or one of three typed values
SpinnerInputs ==
    {spinnerThreads + 1, spinnerThreads - 1, SPINNER_MIN, DEFAULT_EXPORT_THREADS,
     SPINNER_MAX}

(***************************************************************************)
(* ExportWindow: the export thread                                         *)
(***************************************************************************)

\* exportThread == null
NoThread == 0

ThreadIds == 1..MaxRuns

\* a Thread object that runExport has not created yet. cfg, stop and
\* chunkAfterStop are history: the Options at the moment runExport started the
\* thread, when Force Stop first reached the thread, and whether a chunk job
\* started after that
NewThread ==
    [pc |-> "unborn", interrupted |-> FALSE, chunksLeft |-> 0, result |-> "none",
     written |-> FALSE, cfg |-> OptionsDefaults, stop |-> "none",
     chunkAfterStop |-> FALSE]

\* Thread.isAlive()
Alive(th) == th.pc \notin {"unborn", "dead"}

\* the export of the thread has not returned yet
Exporting(th) == th.pc \in {"started", "poll", "chunk", "serialize"}

\* the next Thread object runExport creates
NextId(ths) == Cardinality({t \in ThreadIds : ths[t].pc # "unborn"}) + 1

\* an interrupt() that records the request and never sets the interrupt flag
InterruptLost(ths, t) ==
    IF t # NoThread /\ Alive(ths[t])
    THEN [ths EXCEPT ![t].stop = IF @ # "none" \/ ~Exporting(ths[t]) THEN @
                                 ELSE IF ths[t].pc = "serialize" THEN "late"
                                 ELSE "early"]
    ELSE ths

\* exportThread.interrupt() behind the null test; interrupting a thread
\* that is not alive has no effect. The first request that reaches a running
\* export is recorded: "early" while the export still has a poll ahead of it,
\* "late" once its last poll is behind it
Interrupt(ths, t) ==
    IF t # NoThread /\ Alive(ths[t])
    THEN [ths EXCEPT ![t].interrupted = TRUE,
                     ![t].stop = IF @ # "none" \/ ~Exporting(ths[t]) THEN @
                                 ELSE IF ths[t].pc = "serialize" THEN "late"
                                 ELSE "early"]
    ELSE ths

\* the buttons and threads as one value, so that runExport can be applied
\* more than once within one handler
Gui == [btnStartExport |-> btnStartExport, btnForceStop |-> btnForceStop,
        exportThread |-> exportThread, threads |-> threads]

\* runExport with Options o: Start disabled, Force Stop enabled, the old
\* thread interrupted, a new thread created and started
RunExport(x, o) ==
    LET ths == Interrupt(x.threads, x.exportThread)
        id == NextId(ths)
    IN  [btnStartExport |-> FALSE, btnForceStop |-> TRUE, exportThread |-> id,
         threads |-> [ths EXCEPT ![id] = [NewThread EXCEPT !.pc = "started",
                                                           !.chunksLeft = NumChunks,
                                                           !.cfg = o]]]

SetGui(x) ==
    /\ btnStartExport' = x.btnStartExport
    /\ btnForceStop' = x.btnForceStop
    /\ exportThread' = x.exportThread
    /\ threads' = x.threads

\* the thread body up to the call of ObjExporter.export: pausePreview(true)
ThreadBegin(t) ==
    /\ threads[t].pc = "started"
    /\ threads' = [threads EXCEPT ![t].pc = "poll"]
    /\ UNCHANGED <<outsideExportWindow, optVars, btnStartExport, btnForceStop, exportThread, dlg, files>>

\* ObjExporter.export, the scheduler between two chunk jobs: it polls the
\* cancellation signal, ends the run as Cancelled when it is raised, starts
\* the next chunk job when one is left, and goes on to the serializer when
\* none is
ExportPoll(t) ==
    /\ threads[t].pc = "poll"
    /\ threads' = [threads EXCEPT ![t] =
            IF @.interrupted
            THEN [@ EXCEPT !.pc = "exported", !.result = "Cancelled"]
            ELSE IF @.chunksLeft > 0
            THEN [@ EXCEPT !.pc = "chunk", !.chunkAfterStop = @ \/ threads[t].stop # "none"]
            ELSE [@ EXCEPT !.pc = "serialize"]]
    /\ UNCHANGED <<outsideExportWindow, optVars, btnStartExport, btnForceStop, exportThread, dlg, files>>

\* ObjExporter.export, one chunk job running to its end
ExportChunk(t) ==
    /\ threads[t].pc = "chunk"
    /\ threads' = [threads EXCEPT ![t].pc = "poll", ![t].chunksLeft = @ - 1]
    /\ UNCHANGED <<outsideExportWindow, optVars, btnStartExport, btnForceStop, exportThread, dlg, files>>

\* ObjExporter.export, the serializer: the .obj and .mtl files of the run are
\* written (temporary file, then rename) and the run ends as Completed
ExportSerialize(t) ==
    /\ threads[t].pc = "serialize"
    /\ threads' = [threads EXCEPT ![t].pc = "exported", ![t].result = "Completed",
                                  ![t].written = TRUE]
    /\ files' = files \cup {threads[t].cfg.objFileName, threads[t].cfg.mtlFileName}
    /\ UNCHANGED <<outsideExportWindow, optVars, btnStartExport, btnForceStop, exportThread, dlg>>

\* the thread body after ObjExporter.export returned: Start enabled, Force
\* Stop disabled, pausePreview(false). Nothing reads the thread afterwards,
\* so its record is cleared
ThreadEnd(t) ==
    /\ threads[t].pc = "exported"
    /\ threads' = [threads EXCEPT ![t] = [NewThread EXCEPT !.pc = "dead"]]
    /\ btnStartExport' = TRUE
    /\ btnForceStop' = FALSE
    /\ UNCHANGED <<outsideExportWindow, optVars, exportThread, dlg, files>>

\* the listener of btnForceStop
ForceStop ==
    /\ dlg.pc = "idle"
    /\ btnForceStop
    /\ threads' = Interrupt(threads, exportThread)
    /\ UNCHANGED <<outsideExportWindow, optVars, btnStartExport, btnForceStop, exportThread, dlg, files>>

\* mapLoaded(): the main window reports a loaded world; it can do so once it
\* exists
MapLoaded ==
    /\ windowUp
    /\ btnStartExport' = TRUE
    /\ UNCHANGED <<outsideExportWindow, optVars, btnForceStop, exportThread, threads, dlg, files>>

(***************************************************************************)
(* ExportWindow: the Start Export action and its dialogs                   *)
(***************************************************************************)

\* A file name is a sequence of pieces; ".obj", ".OBJ" and ".mtl" are the
\* pieces the name handling of the action tells apart.
\* the names the user can type into the file chooser
ChooserNames == {<<"m">>, <<"m", ".obj">>, <<"m", ".OBJ">>}

\* prefs.get("LAST_USED_NAME", "minceaft.obj")
LastUsedName(p) ==
    IF p["LAST_USED_NAME"] = <<>> THEN <<"minceaft", ".obj">> ELSE p["LAST_USED_NAME"]

\* f.toString().toLowerCase().endsWith(".obj")
EndsWithObj(n) == Len(n) > 0 /\ n[Len(n)] \in {".obj", ".OBJ"}

\* the first lines of approveSelection: ".obj" is appended unless the name
\* ends with it in any case
SelectedFile(n) == IF EndsWithObj(n) THEN n ELSE Append(n, ".obj")

\* String.replace(".obj", ".mtl"): every ".obj", in that case only
MtlName(n) == [i \in 1..Len(n) |-> IF n[i] = ".obj" THEN ".mtl" ELSE n[i]]

NoDialog == [pc |-> "idle", name |-> <<>>, last |-> FALSE]

\* sendExport on the selected file n, then what follows the closing of the
\* chooser: nothing when the action opened it directly, updateSelectionOptions
\* and a second runExport when the while (fileExists) loop opened it
SendExport(n) ==
    LET o == [opt EXCEPT !.objFileName = n, !.mtlFileName = MtlName(n)]
        x == RunExport(Gui, o)
    IN  /\ opt' = o
        /\ prefs' = [prefs EXCEPT !["LAST_USED_NAME"] = n, !["LAST_EXPORT_PATH"] = TRUE]
        /\ SetGui(IF dlg.last THEN RunExport(x, o) ELSE x)
        /\ dlg' = NoDialog
        /\ UNCHANGED <<outsideExportWindow, chk, enabled, rdbtn, txtX, txtZ, spinnerThreads, files>>

\* the chooser closes without sendExport: Cancel, or cancelSelection() after
\* the Cancel answer of a confirmation
CloseChooser ==
    /\ dlg' = NoDialog
    /\ IF dlg.last
       THEN SetGui(RunExport(Gui, opt))
       ELSE UNCHANGED <<btnStartExport, btnForceStop, exportThread, threads>>
    /\ UNCHANGED <<outsideExportWindow, optVars, files>>

\* startExport.actionPerformed up to its first dialog
StartExport ==
    /\ windowUp
    /\ dlg.pc = "idle"
    /\ btnStartExport
    /\ NextId(threads) + 1 <= MaxRuns
    /\ IF opt.useLastSaveLoc /\ prefs["LAST_EXPORT_PATH"]
       THEN LET n == LastUsedName(prefs)
                o == [opt EXCEPT !.objFileName = n, !.mtlFileName = MtlName(n)]
            IN  /\ opt' = o
                /\ IF n \in files
                   THEN /\ dlg' = [NoDialog EXCEPT !.pc = "lastObjExists"]
                        /\ UNCHANGED <<btnStartExport, btnForceStop, exportThread,
                                       threads>>
                   ELSE IF MtlName(n) \in files
                   THEN /\ dlg' = [NoDialog EXCEPT !.pc = "lastMtlExists"]
                        /\ UNCHANGED <<btnStartExport, btnForceStop, exportThread,
                                       threads>>
                   ELSE /\ dlg' = NoDialog
                        /\ SetGui(RunExport(Gui, o))
       ELSE /\ dlg' = [NoDialog EXCEPT !.pc = "chooser"]
            /\ UNCHANGED <<opt, btnStartExport, btnForceStop, exportThread, threads>>
    /\ UNCHANGED <<outsideExportWindow, chk, enabled, rdbtn, txtX, txtZ, spinnerThreads, prefs, files>>

\* the answer to "the .obj file exists" on the last-save-location path
LastObjAnswer(a) ==
    /\ dlg.pc = "lastObjExists"
    /\ CASE a = "YES" /\ opt.mtlFileName \in files ->
                /\ dlg' = [dlg EXCEPT !.pc = "lastMtlExists"]
                /\ UNCHANGED <<btnStartExport, btnForceStop, exportThread, threads>>
         [] a = "YES" /\ opt.mtlFileName \notin files ->
                /\ dlg' = NoDialog
                /\ SetGui(RunExport(Gui, opt))
         [] a = "NO" ->
                /\ dlg' = [dlg EXCEPT !.pc = "chooser", !.last = TRUE]
                /\ UNCHANGED <<btnStartExport, btnForceStop, exportThread, threads>>
         [] OTHER ->
                /\ dlg' = NoDialog
                /\ UNCHANGED <<btnStartExport, btnForceStop, exportThread, threads>>
    /\ UNCHANGED <<outsideExportWindow, optVars, files>>

\* the answer to "the .mtl file exists" on the last-save-location path
LastMtlAnswer(a) ==
    /\ dlg.pc = "lastMtlExists"
    /\ CASE a = "YES" ->
                /\ dlg' = NoDialog
                /\ SetGui(RunExport(Gui, opt))
         [] a = "NO" ->
                /\ dlg' = [dlg EXCEPT !.pc = "chooser", !.last = TRUE]
                /\ UNCHANGED <<btnStartExport, btnForceStop, exportThread, threads>>
         [] OTHER ->
                /\ dlg' = NoDialog
                /\ UNCHANGED <<btnStartExport, btnForceStop, exportThread, threads>>
    /\ UNCHANGED <<outsideExportWindow, optVars, files>>

\* approveSelection on the typed name n, up to its first confirmation
ApproveSelection(n) ==
    /\ dlg.pc = "chooser"
    /\ IF SelectedFile(n) \in files
       THEN /\ dlg' = [dlg EXCEPT !.pc = "objExists", !.name = SelectedFile(n)]
            /\ UNCHANGED <<outsideExportWindow, optVars, btnStartExport, btnForceStop, exportThread,
                           threads, files>>
       ELSE SendExport(SelectedFile(n))

\* the answer to "the .obj file exists" inside approveSelection; No and a
\* closed confirmation return to the open chooser
ObjExistsAnswer(a) ==
    /\ dlg.pc = "objExists"
    /\ CASE a = "YES" /\ MtlName(dlg.name) \in files ->
                /\ dlg' = [dlg EXCEPT !.pc = "mtlExists"]
                /\ UNCHANGED <<outsideExportWindow, optVars, btnStartExport, btnForceStop, exportThread,
                               threads, files>>
         [] a = "YES" /\ MtlName(dlg.name) \notin files -> SendExport(dlg.name)
         [] a = "CANCEL" -> CloseChooser
         [] OTHER ->
                /\ dlg' = [dlg EXCEPT !.pc = "chooser", !.name = <<>>]
                /\ UNCHANGED <<outsideExportWindow, optVars, btnStartExport, btnForceStop, exportThread,
                               threads, files>>

\* the answer to "the .mtl file exists" inside approveSelection
MtlExistsAnswer(a) ==
    /\ dlg.pc = "mtlExists"
    /\ CASE a = "YES" -> SendExport(dlg.name)
         [] a = "CANCEL" -> CloseChooser
         [] OTHER ->
                /\ dlg' = [dlg EXCEPT !.pc = "chooser", !.name = <<>>]
                /\ UNCHANGED <<outsideExportWindow, optVars, btnStartExport, btnForceStop, exportThread,
                               threads, files>>

\* the Cancel button of the chooser
CancelChooser ==
    /\ dlg.pc = "chooser"
    /\ CloseChooser

\* the answers of JOptionPane.showConfirmDialog(.., YES_NO_CANCEL_OPTION)
Answers == {"YES", "NO", "CANCEL", "CLOSED"}

\* the export window after construction, with the files fs on the disk:
\* Force Stop disabled, no thread, Start enabled when a world is loaded (w)
ExportInit(fs, w) ==
    /\ btnStartExport = w
    /\ btnForceStop = FALSE
    /\ exportThread = NoThread
    /\ threads = [t \in ThreadIds |-> NewThread]
    /\ dlg = NoDialog
    /\ files = fs

(***************************************************************************)
(* Settings: the resource-pack list                                        *)
(***************************************************************************)

\* the pack files the user can add
PackFiles == {"A", "B"}

\* the jar Filesystem.getMinecraftJar() returns when it finds one
MinecraftJar == "MC"

\* the longest resource-pack list of the model
MaxPacks == 2

\* the block types a pack defines
Defines(f) ==
    CASE f = "A" -> {1}
      [] f = "B" -> {1, 2}
      [] OTHER -> {1, 2, 3}

BlockTypes == {1, 2, 3}

\* the registry lookup of a block type in the ordered packs ps: the first pack
\* of the list that defines the type, "none" when no pack does
RECURSIVE Resolve(_, _)
Resolve(ps, b) ==
    IF ps = <<>> THEN "none"
    ELSE IF b \in Defines(Head(ps)) THEN Head(ps)
    ELSE Resolve(Tail(ps), b)

\* a pack inserted at the end of the list
InsertPackLast(l, f) == Append(l, f)

\* listPacks.getModel().add(0, file)
InsertPack(l, f) == <<f>> \o l

\* the for loop of btnPackAdd and importData over the chosen files
RECURSIVE InsertAll(_, _)
InsertAll(l, fs) ==
    IF fs = <<>> THEN l ELSE InsertAll(InsertPack(l, Head(fs)), Tail(fs))

\* updateResourcePacks with the default pack put first
ResPacksDefaultFirst(l, d, jar) == IF d /\ jar THEN <<MinecraftJar>> \o l ELSE l

\* updateResourcePacks: Options.resourcePacks for the list l, the checkbox d
\* and a found (jar) or missing Minecraft jar
ResPacks(l, d, jar) == IF d /\ jar THEN Append(l, MinecraftJar) ELSE l

\* Registries.reloadResourcePacks(): the registry reads Options.resourcePacks
Reload(ps) == [packs |-> ps, bit |-> ~registry.bit]

\* saveSettings, then updateResourcePacks(true), on the list l with row i
\* selected and the checkbox d; by names the listener and added the files it
\* added
SaveAndUpdate(l, i, d, by, added) ==
    /\ listPacks' = l
    /\ selected' = i
    /\ usePackDefault' = d
    /\ packPrefs' = [ok |-> TRUE, packs |-> l, useDefault |-> d]
    /\ resourcePacks' = ResPacks(l, d, mcJar)
    /\ registry' = Reload(ResPacks(l, d, mcJar))
    /\ updated' = [by |-> by, added |-> added]
    /\ UNCHANGED <<mcJar, outsideSettings>>

\* the files a chooser or a drop can deliver: up to two, in any order
Selections ==
    {<<>>} \cup {<<f>> : f \in PackFiles} \cup {<<f, g>> : f, g \in PackFiles}

Range(q) == {q[i] : i \in 1..Len(q)}

\* the listener of btnPackAdd; a cancelled chooser delivers no file and the
\* listener still saves and reloads. getSelectedFiles() holds no null
AddPacks(fs) ==
    /\ dlg.pc = "idle"
    /\ Len(listPacks) + Len(fs) <= MaxPacks
    /\ LET l == InsertAll(listPacks, fs)
       IN  SaveAndUpdate(l, IF l = <<>> THEN 0 ELSE 1, usePackDefault, "add", Range(fs))

\* importData of the list's TransferHandler: files dropped on the list
ImportData(fs) ==
    /\ dlg.pc = "idle"
    /\ fs # <<>>
    /\ Len(listPacks) + Len(fs) <= MaxPacks
    /\ SaveAndUpdate(InsertAll(listPacks, fs), 1, usePackDefault, "import", Range(fs))

\* the user selects row i of the list
SelectPack(i) ==
    /\ dlg.pc = "idle"
    /\ i \in 1..Len(listPacks)
    /\ i # selected
    /\ selected' = i
    /\ UNCHANGED <<listPacks, usePackDefault, packPrefs, resourcePacks, registry, mcJar,
                   updated, outsideSettings>>

\* the sequence q without its element i
RemoveAt(q, i) == [j \in 1..(Len(q) - 1) |-> IF j < i THEN q[j] ELSE q[j + 1]]

\* the sequence q with its elements i and j exchanged
Swap(q, i, j) == [q EXCEPT ![i] = q[j], ![j] = q[i]]

\* the listener of btnPackRemove: listPacks.removeSelected() is false when no
\* row is selected
PackRemove ==
    /\ dlg.pc = "idle"
    /\ selected # 0
    /\ SaveAndUpdate(RemoveAt(listPacks, selected), 0, usePackDefault, "remove", {})

\* the listener of btnPackUp: moveSelectedUp() is false on the first row
PackUp ==
    /\ dlg.pc = "idle"
    /\ selected > 1
    /\ SaveAndUpdate(Swap(listPacks, selected, selected - 1), selected - 1,
                     usePackDefault, "up", {})

\* the listener of btnPackDown: moveSelectedDown() is false on the last row
PackDown ==
    /\ dlg.pc = "idle"
    /\ selected \in 1..(Len(listPacks) - 1)
    /\ SaveAndUpdate(Swap(listPacks, selected, selected + 1), selected + 1,
                     usePackDefault, "down", {})

\* the listener of chckbxUsePackDefault
ClickUsePackDefault ==
    /\ dlg.pc = "idle"
    /\ SaveAndUpdate(listPacks, selected, ~usePackDefault, "default", {})

\* the listener of bReload: IDConvert.initialize(), then
\* Registries.reloadResourcePacks()
ReloadButton ==
    /\ dlg.pc = "idle"
    /\ registry' = Reload(resourcePacks)
    /\ UNCHANGED <<listPacks, selected, usePackDefault, packPrefs, resourcePacks, mcJar,
                   updated, outsideSettings>>

\* windowActivated: loadSettings reads the list and the checkbox back from
\* the preferences; the reloaded list has no selected row
WindowActivated ==
    /\ dlg.pc = "idle"
    /\ listPacks' = packPrefs.packs
    /\ usePackDefault' = packPrefs.useDefault
    /\ selected' = 0
    /\ UNCHANGED <<packPrefs, resourcePacks, registry, mcJar, updated, outsideSettings>>

\* the stored preferences of the Settings window; ok = FALSE is a RESOURCE_PACKS
\* string that loadPrefString rejects with an IllegalArgumentException
StoredPacks ==
    {[ok |-> o, packs |-> l, useDefault |-> d] :
        o \in BOOLEAN, l \in {<<>>, <<"B">>}, d \in BOOLEAN}

\* Settings(): loadSettings (resetSettings when it throws), then
\* updateResourcePacks(false); the registries then load Options.resourcePacks
SettingsInit(pp, jar) ==
    LET l == IF pp.ok THEN pp.packs ELSE <<>>
        d == IF pp.ok THEN pp.useDefault ELSE TRUE
    IN  /\ listPacks = l
        /\ selected = 0
        /\ usePackDefault = d
        /\ packPrefs = IF pp.ok THEN pp ELSE [ok |-> TRUE, packs |-> l, useDefault |-> d]
        /\ mcJar = jar
        /\ resourcePacks = ResPacks(l, d, jar)
        /\ registry = [packs |-> ResPacks(l, d, jar), bit |-> FALSE]
        /\ updated = [by |-> "init", added |-> {}]

(***************************************************************************)
(* Main: program start                                                     *)
(***************************************************************************)

\* the initialize() calls of runGUI and runConsole, in call order
InitOrder == <<"Configuration", "Registries", "BlockTypes", "IDConvert", "EntityTypes">>

\* main with no arguments: runGUI up to and including new MainWindow()
RunGUI ==
    /\ mainPc = "start"
    /\ mode = "GUI"
    /\ windowUp' = TRUE
    /\ mainPc' = "init"
    /\ UNCHANGED <<mode, initialized, consoleExport, outsideMain>>

\* main with arguments: CmdLineParser.parse; a CmdLineException ends the
\* program with System.exit(-1); exportWorld is Options.exportWorld afterwards
RunConsole(ok, exportWorld) ==
    /\ mainPc = "start"
    /\ mode = "CONSOLE"
    /\ mainPc' = IF ok THEN "init" ELSE "exit -1"
    /\ consoleExport' = IF ok /\ exportWorld THEN "wanted" ELSE "none"
    /\ UNCHANGED <<mode, initialized, windowUp, outsideMain>>

\* the next initialize() call returns; after the last one runGUI calls
\* loadingFinished() and runConsole goes on to the export
InitializeReturns ==
    /\ mainPc = "init"
    /\ initialized' = Append(initialized, InitOrder[Len(initialized) + 1])
    /\ mainPc' = IF Len(initialized') < Len(InitOrder) THEN "init"
                 ELSE IF mode = "GUI" THEN "done" ELSE "export"
    /\ UNCHANGED <<mode, windowUp, consoleExport, outsideMain>>

\* the next initialize() call throws: runConsole logs and ends the program
\* with System.exit(-2), runGUI logs and returns with the windows open
InitializeThrows ==
    /\ mainPc = "init"
    /\ mainPc' = IF mode = "GUI" THEN "done" ELSE "exit -2"
    /\ UNCHANGED <<mode, initialized, windowUp, consoleExport, outsideMain>>

\* the end of runConsole: ObjExporter.export if Options.exportWorld
ConsoleExport ==
    /\ mainPc = "export"
    /\ consoleExport' = IF consoleExport = "wanted" THEN "started" ELSE consoleExport
    /\ mainPc' = "done"
    /\ UNCHANGED <<mode, initialized, windowUp, outsideMain>>

\* Main.main at its start, in GUI or console mode
MainInit(m) ==
    /\ mode = m
    /\ mainPc = "start"
    /\ initialized = <<>>
    /\ windowUp = FALSE
    /\ consoleExport = "none"

\* the GUI after runGUI returned from a start without exceptions
MainReady ==
    /\ mode = "GUI"
    /\ mainPc = "done"
    /\ initialized = InitOrder
    /\ windowUp = TRUE
    /\ consoleExport = "none"

(***************************************************************************)
(* RegionSelector: state, derived values and effects                       *)
(***************************************************************************)

\* the constants RegionSelector imports from constants/terrain; the model
\* gives them small values
MAX_IMPORT_SIZE_X == 4

MAX_IMPORT_SIZE_Y == 66

MAX_IMPORT_SIZE_Z == 4

DEFAULT_IMPORT_SIZE == 1

\* how many height jiggles the effect on bounds may schedule in one behaviour
MaxJiggles == 2

ZeroBounds == [minX |-> 0, minY |-> 0, minZ |-> 0, maxX |-> 0, maxY |-> 0, maxZ |-> 0]

\* width, height and depth of the render
Width(b) == b.maxX - b.minX + 1

Height(b) == b.maxY - b.minY + 1

Depth(b) == b.maxZ - b.minZ + 1

\* worldData?.bounds?.maxY || 255
WorldMaxY(wd) == IF wd.has /\ wd.bounds.maxY # 0 THEN wd.bounds.maxY ELSE 255

\* center - Math.floor(size / 2)
LowEdge(c, n) == c - (n \div 2)

\* an upper edge without the correction for even sizes
HighEdgeUncorrected(c, n) == c + (n \div 2)

\* center + Math.floor(size / 2) + (size % 2 === 0 ? -1 : 0)
HighEdge(c, n) == c + (n \div 2) + (IF n % 2 = 0 THEN -1 ELSE 0)

\* newBounds of the effect on [size, center, worldData]
BoundsFromCenter(sz, c, wd) ==
    [minX |-> LowEdge(c.x, sz.x), maxX |-> HighEdge(c.x, sz.x),
     minY |-> LowEdge(c.y, sz.y), maxY |-> Min(WorldMaxY(wd), HighEdge(c.y, sz.y)),
     minZ |-> LowEdge(c.z, sz.z), maxZ |-> HighEdge(c.z, sz.z)]

\* trimmedBounds of the effect that reports the region
TrimmedBounds(b) ==
    [minX |-> b.minX, minY |-> b.minY, minZ |-> b.minZ,
     maxX |-> Min(b.maxX, b.minX + MAX_IMPORT_SIZE_X - 1),
     maxY |-> Min(b.maxY, b.minY + MAX_IMPORT_SIZE_Y - 1),
     maxZ |-> Min(b.maxZ, b.minZ + MAX_IMPORT_SIZE_Z - 1)]

\* the size of a region
SizeOf(b) == [x |-> Width(b), y |-> Height(b), z |-> Depth(b)]

\* Math.floor((min + max) / 2) per axis
MidOf(b) ==
    [x |-> (b.minX + b.maxX) \div 2, y |-> (b.minY + b.maxY) \div 2,
     z |-> (b.minZ + b.maxZ) \div 2]

\* what selectEntireWorld passes to setSize and setCenter
WorldSize(wb) ==
    [x |-> Min(Width(wb), MAX_IMPORT_SIZE_X), y |-> Min(Height(wb), MAX_IMPORT_SIZE_Y),
     z |-> Min(Depth(wb), MAX_IMPORT_SIZE_Z)]

WorldCenter(wb) ==
    [x |-> (wb.minX + wb.maxX) \div 2, y |-> wb.minY + (WorldSize(wb).y \div 2),
     z |-> (wb.minZ + wb.maxZ) \div 2]

\* the values and refs one commit leaves behind, the setState calls of its
\* effects applied in call order: sB, sS, sC and sO tell that setBounds,
\* setSize, setCenter and setOffsets were called with a new object
Acc0 ==
    [bounds |-> bounds, sB |-> FALSE, size |-> size, sS |-> FALSE,
     center |-> center, sC |-> FALSE, offsets |-> offsets, sO |-> FALSE,
     isValid |-> isValid, prevBoundsRef |-> prevBoundsRef,
     prevOffsetsRef |-> prevOffsetsRef, worldInitializedRef |-> worldInitializedRef,
     timers |-> timers, lastReport |-> lastReport, lastTrim |-> lastTrim]

\* selectEntireWorld: setSize, setCenter and setOffsets from the world bounds
SelectEntireWorld(a) ==
    IF worldData.has
    THEN [a EXCEPT !.size = WorldSize(worldData.bounds), !.sS = TRUE,
                   !.center = WorldCenter(worldData.bounds), !.sC = TRUE,
                   !.offsets = [x |-> 0, z |-> 0], !.sO = TRUE]
    ELSE a

\* the effect on [worldData, initialRegion]
MountEffect(a) ==
    IF initialRegion.has /\ ~a.worldInitializedRef
    THEN [a EXCEPT !.bounds = initialRegion.region, !.sB = TRUE,
                   !.size = SizeOf(initialRegion.region), !.sS = TRUE,
                   !.center = MidOf(initialRegion.region), !.sC = TRUE,
                   !.offsets = IF initialRegion.hasOffsets
                               THEN [x |-> initialRegion.offsetX,
                                     z |-> initialRegion.offsetZ]
                               ELSE @,
                   !.sO = @ \/ initialRegion.hasOffsets,
                   !.worldInitializedRef = TRUE]
    ELSE IF worldData.has /\ ~a.worldInitializedRef
    THEN [SelectEntireWorld(a) EXCEPT !.worldInitializedRef = TRUE]
    ELSE a

\* the effect on [worldData?.bounds, bounds]: a timer that will raise the
\* height of this render by one, and 50 ms later put it back
JiggleEffect(a) ==
    IF worldData.has /\ a.timers.jiggles < MaxJiggles
    THEN [a EXCEPT !.timers.up = Append(@, size.y), !.timers.jiggles = @ + 1]
    ELSE a

\* the effect on [size, center, worldData]
BoundsEffect(a) ==
    [a EXCEPT !.bounds = BoundsFromCenter(size, center, worldData), !.sB = TRUE]

\* the effect on [width, height, depth]
ValidEffect(a) ==
    [a EXCEPT !.isValid = Width(bounds) > 0 /\ Height(bounds) > 0 /\ Depth(bounds) > 0]

\* the effect on the bounds, the offsets, isValid, width, height and depth:
\* trims, and reports when the trimmed bounds or the offsets are new
TrimEffect(a) ==
    LET t == TrimmedBounds(bounds)
        boundsChanged == ~a.prevBoundsRef.set \/ a.prevBoundsRef.v # t
        prevOffsets == IF a.prevOffsetsRef.set THEN a.prevOffsetsRef.v
                       ELSE [x |-> 0, z |-> 0]
        offsetsChanged == prevOffsets # offsets
        resize == SizeOf(t) # SizeOf(bounds)
    IN  IF isValid /\ (boundsChanged \/ offsetsChanged)
        THEN [a EXCEPT !.prevBoundsRef = [set |-> TRUE, v |-> t],
                       !.prevOffsetsRef = [set |-> TRUE, v |-> offsets],
                       !.size = IF resize THEN SizeOf(t) ELSE @,
                       !.sS = @ \/ resize,
                       !.lastReport = [made |-> TRUE, region |-> t,
                                       offsetX |-> offsets.x, offsetZ |-> offsets.z,
                                       from |-> bounds],
                       !.lastTrim = IF resize THEN [made |-> TRUE, region |-> t] ELSE @]
        ELSE a

\* one commit: the effects whose dependencies changed since the last commit
\* run in source order on the values of this render; the state they set is
\* the next render's
Render ==
    /\ render.pending
    /\ LET first == ~render.mounted
           seen == render.seen
           a1 == IF first THEN MountEffect(Acc0) ELSE Acc0
           a2 == IF first \/ render.dirtyBounds THEN JiggleEffect(a1) ELSE a1
           a3 == IF first \/ render.dirtySize \/ render.dirtyCenter
                 THEN BoundsEffect(a2) ELSE a2
           a4 == IF first \/ SizeOf(bounds) # SizeOf(seen.bounds)
                 THEN ValidEffect(a3) ELSE a3
           a5 == IF \/ first
                    \/ bounds # seen.bounds
                    \/ offsets # seen.offsets
                    \/ isValid # seen.isValid
                 THEN TrimEffect(a4) ELSE a4
       IN  /\ bounds' = a5.bounds
           /\ size' = a5.size
           /\ center' = a5.center
           /\ offsets' = a5.offsets
           /\ isValid' = a5.isValid
           /\ prevBoundsRef' = a5.prevBoundsRef
           /\ prevOffsetsRef' = a5.prevOffsetsRef
           /\ worldInitializedRef' = a5.worldInitializedRef
           /\ timers' = a5.timers
           /\ lastReport' = a5.lastReport
           /\ lastTrim' = a5.lastTrim
           /\ render' = [pending |-> a5.sB \/ a5.sS \/ a5.sC \/ a5.sO
                                        \/ a5.isValid # isValid,
                         mounted |-> TRUE,
                         dirtyBounds |-> a5.sB, dirtySize |-> a5.sS,
                         dirtyCenter |-> a5.sC,
                         seen |-> [bounds |-> bounds, offsets |-> offsets,
                                   isValid |-> isValid]]
    /\ UNCHANGED <<worldData, initialRegion, dragVars, outsideRegion>>

(***************************************************************************)
(* RegionSelector: handlers and timers                                     *)
(***************************************************************************)

\* parseInt(value, 10) on the texts the model types into the number fields:
\* the leading integer, NaN (nan) when there is none
ParseIntJs(t) ==
    CASE t = "0" -> [nan |-> FALSE, v |-> 0]
      [] t = "3" -> [nan |-> FALSE, v |-> 3]
      [] t = "3x" -> [nan |-> FALSE, v |-> 3]
      [] t = "9" -> [nan |-> FALSE, v |-> 9]
      [] t = "-2" -> [nan |-> FALSE, v |-> -2]
      [] OTHER -> [nan |-> TRUE, v |-> 0]

\* a handler or a timer set state while no render was due: a render is due,
\* and the effects that depend on the object that was replaced will run
Touched(what) ==
    [render EXCEPT !.pending = TRUE,
                   !.dirtyBounds = what = "bounds",
                   !.dirtySize = what = "size",
                   !.dirtyCenter = what = "center"]

\* the browser runs handlers and timers between renders, not during one
Idle == render.mounted /\ ~render.pending

MaxSize(axis) ==
    CASE axis = "x" -> MAX_IMPORT_SIZE_X
      [] axis = "y" -> MAX_IMPORT_SIZE_Y
      [] OTHER -> MAX_IMPORT_SIZE_Z

NoTrim == [made |-> FALSE, region |-> ZeroBounds]

\* a size field that takes any positive number
LimitedValueUnlimited(numValue, axis) == numValue

\* limitedValue of handleSizeChange: Math.min(numValue, maxSize)
LimitedValue(numValue, axis) == Min(numValue, MaxSize(axis))

\* handleSizeChange(axis, value)
HandleSizeChange(axis, value) ==
    /\ Idle
    /\ IF value = "" \/ value = "0" \/ ParseIntJs(value).nan \/ ParseIntJs(value).v <= 0
       THEN UNCHANGED <<size, render, lastTrim>>
       ELSE /\ size' = [size EXCEPT ![axis] = LimitedValue(ParseIntJs(value).v, axis)]
            /\ render' = Touched("size")
            /\ lastTrim' = NoTrim
    /\ UNCHANGED <<worldData, initialRegion, bounds, center, offsets, isValid,
                   prevBoundsRef, prevOffsetsRef, worldInitializedRef, timers,
                   lastReport, dragVars, outsideRegion>>

\* handleCenterChange(axis, value)
HandleCenterChange(axis, value) ==
    /\ Idle
    /\ IF value = "" \/ value = "-" \/ ParseIntJs(value).nan
       THEN UNCHANGED <<center, render, lastTrim>>
       ELSE /\ center' = [center EXCEPT ![axis] = ParseIntJs(value).v]
            /\ render' = Touched("center")
            /\ lastTrim' = NoTrim
    /\ UNCHANGED <<worldData, initialRegion, bounds, size, offsets, isValid,
                   prevBoundsRef, prevOffsetsRef, worldInitializedRef, timers,
                   lastReport, dragVars, outsideRegion>>

\* handleOffsetChange(axis, value)
HandleOffsetChange(axis, value) ==
    /\ Idle
    /\ IF value = "" \/ value = "-" \/ ParseIntJs(value).nan
       THEN UNCHANGED <<offsets, render, lastTrim>>
       ELSE /\ offsets' = [offsets EXCEPT ![axis] = ParseIntJs(value).v]
            /\ render' = Touched("offsets")
            /\ lastTrim' = NoTrim
    /\ UNCHANGED <<worldData, initialRegion, bounds, size, center, isValid,
                   prevBoundsRef, prevOffsetsRef, worldInitializedRef, timers,
                   lastReport, dragVars, outsideRegion>>

\* the "select entire world" button: selectEntireWorld()
ClickSelectEntireWorld ==
    /\ Idle
    /\ worldData.has
    /\ size' = SelectEntireWorld(Acc0).size
    /\ center' = SelectEntireWorld(Acc0).center
    /\ offsets' = SelectEntireWorld(Acc0).offsets
    /\ render' = [render EXCEPT !.pending = TRUE, !.dirtySize = TRUE,
                                !.dirtyCenter = TRUE]
    /\ lastTrim' = NoTrim
    /\ UNCHANGED <<worldData, initialRegion, bounds, isValid, prevBoundsRef,
                   prevOffsetsRef, worldInitializedRef, timers, lastReport,
                   dragVars, outsideRegion>>

\* the 100 ms timer of the effect on bounds: the height becomes the height of
\* the scheduling render plus one, and the 50 ms timer is set
JiggleUp ==
    /\ Idle
    /\ timers.up # <<>>
    /\ size' = [size EXCEPT !.y = Head(timers.up) + 1]
    /\ timers' = [timers EXCEPT !.up = Tail(@), !.down = Append(@, Head(timers.up))]
    /\ render' = Touched("size")
    /\ lastTrim' = NoTrim
    /\ UNCHANGED <<worldData, initialRegion, bounds, center, offsets, isValid,
                   prevBoundsRef, prevOffsetsRef, worldInitializedRef, lastReport,
                   dragVars, outsideRegion>>

\* the 50 ms timer: the height becomes the height of the scheduling render
JiggleDown ==
    /\ Idle
    /\ timers.down # <<>>
    /\ size' = [size EXCEPT !.y = Head(timers.down)]
    /\ timers' = [timers EXCEPT !.down = Tail(@)]
    /\ render' = Touched("size")
    /\ lastTrim' = NoTrim
    /\ UNCHANGED <<worldData, initialRegion, bounds, center, offsets, isValid,
                   prevBoundsRef, prevOffsetsRef, worldInitializedRef, lastReport,
                   dragVars, outsideRegion>>

(***************************************************************************)
(* RegionSelector: the map click and the drag handlers                     *)
(***************************************************************************)

\* how many mouse-down and mouse-move events of drags one behaviour may have
MaxDragEvents == 3

\* dragOperation and yDragOperation when null
NoDrag == "none"

NoStartBounds == [has |-> FALSE, v |-> ZeroBounds]

\* String.prototype.includes on the direction names
Includes(direction, letter) ==
    CASE letter = "n" -> direction \in {"n", "ne", "nw"}
      [] letter = "s" -> direction \in {"s", "se", "sw"}
      [] letter = "e" -> direction \in {"e", "ne", "se"}
      [] OTHER -> direction \in {"w", "nw", "sw"}

\* handleMapClick returns before it sets the center: line 744, with the svg
\* element mounted
\* a guard that looks at the drag in progress only
MapClickIgnoredDragOnly(op, jfd) == op # NoDrag

MapClickIgnored(op, jfd) == op # NoDrag \/ jfd

\* handleMapClick(e): p is the rounded svg coordinate of the event
HandleMapClick(p) ==
    /\ Idle
    /\ IF MapClickIgnored(dragOperation, justFinishedDrag)
       THEN UNCHANGED <<center, render, lastTrim>>
       ELSE /\ center' = [center EXCEPT !.x = p.x, !.z = p.z]
            /\ render' = Touched("center")
            /\ lastTrim' = NoTrim
    /\ UNCHANGED <<worldData, initialRegion, bounds, size, offsets, isValid,
                   prevBoundsRef, prevOffsetsRef, worldInitializedRef, timers,
                   lastReport, dragVars, outsideRegion>>

\* handleDragStart(e, direction): a mouse button goes down on an edge handle
HandleDragStart(direction, p) ==
    /\ Idle
    /\ dragEvents < MaxDragEvents
    /\ dragEvents' = dragEvents + 1
    /\ dragOperation' = direction
    /\ isDragging' = TRUE
    /\ dragStartCoords' = [dragStartCoords EXCEPT !.x = p.x, !.z = p.z]
    /\ dragStartBounds' = [has |-> TRUE, v |-> bounds]
    /\ UNCHANGED <<justFinishedDrag, yDragOperation, docListeners, clearTimers,
                   regionVars, outsideRegion>>

\* newBounds of handleDragMove after the switch on the direction
DraggedEdges(op, b, sb, dx, dz) ==
    [b EXCEPT !.minZ = IF Includes(op, "n") THEN sb.minZ + dz ELSE @,
              !.maxZ = IF Includes(op, "s") THEN sb.maxZ + dz ELSE @,
              !.maxX = IF Includes(op, "e") THEN sb.maxX + dx ELSE @,
              !.minX = IF Includes(op, "w") THEN sb.minX + dx ELSE @]

\* lines 860-873: the dragged edge stays one block away from the other edge
KeptApart(op, b) ==
    LET bx == IF b.minX >= b.maxX
              THEN IF Includes(op, "w") THEN [b EXCEPT !.minX = b.maxX - 1]
                   ELSE [b EXCEPT !.maxX = b.minX + 1]
              ELSE b
    IN  IF bx.minZ >= bx.maxZ
        THEN IF Includes(op, "n") THEN [bx EXCEPT !.minZ = bx.maxZ - 1]
             ELSE [bx EXCEPT !.maxZ = bx.minZ + 1]
        ELSE bx

\* lines 878-893: the dragged edge stays within the maximum size
KeptWithinMax(op, b) ==
    LET bx == IF Width(b) > MAX_IMPORT_SIZE_X
              THEN IF Includes(op, "w")
                   THEN [b EXCEPT !.minX = b.maxX - MAX_IMPORT_SIZE_X + 1]
                   ELSE [b EXCEPT !.maxX = b.minX + MAX_IMPORT_SIZE_X - 1]
              ELSE b
    IN  IF Depth(bx) > MAX_IMPORT_SIZE_Z
        THEN IF Includes(op, "n")
             THEN [bx EXCEPT !.minZ = bx.maxZ - MAX_IMPORT_SIZE_Z + 1]
             ELSE [bx EXCEPT !.maxZ = bx.minZ + MAX_IMPORT_SIZE_Z - 1]
        ELSE bx

\* handleDragMove(e), called by the svg's onMouseMove while dragOperation is set
HandleDragMove(p) ==
    /\ Idle
    /\ dragOperation # NoDrag
    /\ dragStartBounds.has
    /\ dragEvents < MaxDragEvents
    /\ dragEvents' = dragEvents + 1
    /\ LET nb == KeptWithinMax(dragOperation,
                    KeptApart(dragOperation,
                        DraggedEdges(dragOperation, bounds, dragStartBounds.v,
                                     p.x - dragStartCoords.x,
                                     p.z - dragStartCoords.z)))
       IN  /\ bounds' = nb
           /\ size' = [size EXCEPT !.x = Width(nb), !.z = Depth(nb)]
           /\ center' = [center EXCEPT !.x = (nb.minX + nb.maxX) \div 2,
                                       !.z = (nb.minZ + nb.maxZ) \div 2]
    /\ isDragging' = TRUE
    /\ render' = [render EXCEPT !.pending = TRUE, !.dirtyBounds = TRUE,
                                !.dirtySize = TRUE, !.dirtyCenter = TRUE]
    /\ lastTrim' = NoTrim
    /\ UNCHANGED <<worldData, initialRegion, offsets, isValid, prevBoundsRef,
                   prevOffsetsRef, worldInitializedRef, timers, lastReport,
                   dragOperation, dragStartCoords, dragStartBounds, justFinishedDrag,
                   yDragOperation, docListeners, clearTimers, outsideRegion>>

\* the state handleDragEnd(e) leaves: lines 903-919
DragEnd(s) ==
    [s EXCEPT !.justFinishedDrag = IF s.isDragging THEN TRUE ELSE @,
              !.clearTimers = IF s.isDragging THEN @ + 1 ELSE @,
              !.dragOperation = NoDrag,
              !.dragStartBounds = NoStartBounds,
              !.isDragging = FALSE]

\* handleYDragEnd(e) of the listener l, which sees the yDragOperation and the
\* isDragging of the render that registered it: lines 1045-1059
YDragEnd(s, l) ==
    IF l.yDragOperation # NoDrag /\ l.isDragging
    THEN [s EXCEPT !.yDragOperation = NoDrag, !.isDragging = FALSE,
                   !.justFinishedDrag = TRUE, !.clearTimers = @ + 1]
    ELSE s

\* the listeners of document run one after the other
RECURSIVE YDragEnds(_, _)
YDragEnds(s, ls) == IF ls = <<>> THEN s ELSE YDragEnds(YDragEnd(s, Head(ls)), Tail(ls))

\* a listener that ended its drag has removed itself from document
Stale(l) == ~(l.yDragOperation # NoDrag /\ l.isDragging)

DragState ==
    [dragOperation |-> dragOperation, dragStartBounds |-> dragStartBounds,
     isDragging |-> isDragging, justFinishedDrag |-> justFinishedDrag,
     yDragOperation |-> yDragOperation, clearTimers |-> clearTimers]

SetDragState(s) ==
    /\ dragOperation' = s.dragOperation
    /\ dragStartBounds' = s.dragStartBounds
    /\ isDragging' = s.isDragging
    /\ justFinishedDrag' = s.justFinishedDrag
    /\ yDragOperation' = s.yDragOperation
    /\ clearTimers' = s.clearTimers

\* the mouse button goes up: over the map while an edge is dragged the svg's
\* onMouseUp calls handleDragEnd (an edge drag ends when the pointer leaves
\* the map, so the pointer is over it), then the listeners of document run
MouseUp ==
    /\ Idle
    /\ dragOperation # NoDrag \/ docListeners # <<>>
    /\ SetDragState(YDragEnds(IF dragOperation # NoDrag THEN DragEnd(DragState)
                              ELSE DragState, docListeners))
    /\ docListeners' = SelectSeq(docListeners, Stale)
    /\ UNCHANGED <<dragStartCoords, dragEvents, regionVars, outsideRegion>>

\* the pointer leaves the map while an edge is dragged: onMouseLeave
MouseLeave ==
    /\ Idle
    /\ dragOperation # NoDrag
    /\ SetDragState(DragEnd(DragState))
    /\ UNCHANGED <<dragStartCoords, docListeners, dragEvents, regionVars,
                   outsideRegion>>

\* onMouseDown of a height handle, which lies outside the map: it registers
\* the handleYDragEnd of the current render on document
YHandleMouseDown(direction) ==
    /\ Idle
    /\ dragOperation = NoDrag
    /\ dragEvents < MaxDragEvents
    /\ dragEvents' = dragEvents + 1
    /\ yDragOperation' = direction
    /\ isDragging' = TRUE
    /\ docListeners' = Append(docListeners,
                              [yDragOperation |-> yDragOperation,
                               isDragging |-> isDragging])
    /\ UNCHANGED <<dragOperation, dragStartCoords, dragStartBounds,
                   justFinishedDrag, clearTimers, regionVars, outsideRegion>>

\* a 100 ms timer of handleDragEnd or handleYDragEnd: setJustFinishedDrag(false)
ClearJustFinishedDrag ==
    /\ clearTimers > 0
    /\ justFinishedDrag' = FALSE
    /\ clearTimers' = clearTimers - 1
    /\ UNCHANGED <<dragOperation, dragStartCoords, dragStartBounds, isDragging,
                   yDragOperation, docListeners, dragEvents, regionVars,
                   outsideRegion>>

\* the useState initial values of the drag state
DragInit ==
    /\ dragOperation = NoDrag
    /\ dragStartCoords = [x |-> 0, z |-> 0, y |-> 0]
    /\ dragStartBounds = NoStartBounds
    /\ isDragging = FALSE
    /\ justFinishedDrag = FALSE
    /\ yDragOperation = NoDrag
    /\ docListeners = <<>>
    /\ clearTimers = 0
    /\ dragEvents = 0

\* worldData without and with bounds
NoWorld == [has |-> FALSE, bounds |-> ZeroBounds]

Worlds ==
    {NoWorld,
     [has |-> TRUE,
      bounds |-> [minX |-> 0, maxX |-> 6, minY |-> 0, maxY |-> 70, minZ |-> 0,
                  maxZ |-> 1]]}

\* initialRegion: absent, wider than the maximum, and within it with offsets
NoRegion ==
    [has |-> FALSE, region |-> ZeroBounds, hasOffsets |-> FALSE, offsetX |-> 0,
     offsetZ |-> 0]

Regions ==
    {NoRegion,
     [has |-> TRUE,
      region |-> [minX |-> 0, maxX |-> 6, minY |-> 0, maxY |-> 3, minZ |-> 0,
                  maxZ |-> 1],
      hasOffsets |-> FALSE, offsetX |-> 0, offsetZ |-> 0],
     [has |-> TRUE,
      region |-> [minX |-> 1, maxX |-> 3, minY |-> 0, maxY |-> 3, minZ |-> 0,
                  maxZ |-> 1],
      hasOffsets |-> TRUE, offsetX |-> 3, offsetZ |-> 0]}

\* the component before its first commit: the useState and useRef initial
\* values, with the props wd and ir
RegionInit(wd, ir) ==
    /\ worldData = wd
    /\ initialRegion = ir
    /\ bounds = ZeroBounds
    /\ size = [x |-> DEFAULT_IMPORT_SIZE * 2, y |-> 64, z |-> DEFAULT_IMPORT_SIZE * 2]
    /\ center = [x |-> 0, y |-> 0, z |-> 0]
    /\ offsets = [x |-> 0, z |-> 0]
    /\ isValid = FALSE
    /\ prevBoundsRef = [set |-> FALSE, v |-> ZeroBounds]
    /\ prevOffsetsRef = [set |-> FALSE, v |-> [x |-> 0, z |-> 0]]
    /\ worldInitializedRef = FALSE
    /\ render = [pending |-> TRUE, mounted |-> FALSE, dirtyBounds |-> FALSE,
                 dirtySize |-> FALSE, dirtyCenter |-> FALSE,
                 seen |-> [bounds |-> ZeroBounds, offsets |-> [x |-> 0, z |-> 0],
                           isValid |-> FALSE]]
    /\ timers = [up |-> <<>>, down |-> <<>>, jiggles |-> 0]
    /\ lastReport = [made |-> FALSE, region |-> ZeroBounds, offsetX |-> 0,
                     offsetZ |-> 0, from |-> ZeroBounds]
    /\ lastTrim = NoTrim
    /\ DragInit

(***************************************************************************)
(* The export engine: block models, chunk processor, boundary delegate,    *)
(* scheduler with its worker pool, mesh aggregator                         *)
(***************************************************************************)

\* the largest pool size and the largest chunk size a job of the model has
MaxWorkers == 2

MaxChunkSize == 2

Max(a, b) == IF a > b THEN a ELSE b

\* the World Data Source holds blocks at these coordinates (x, z)
WorldXs == -2..3

WorldZs == 0..1

\* the block at a coordinate: fixed world content
BlockId(x, z) ==
    IF x = 1 THEN "barrier" ELSE IF (x + z) % 2 = 0 THEN "stone" ELSE "dirt"

\* the Chunk Boundary Delegate: blockAt(x, y, z) -> BlockInstance | outOfBounds
BlockAt(x, z) == IF x \in WorldXs /\ z \in WorldZs THEN BlockId(x, z) ELSE "outOfBounds"

\* a full block hides the face of the neighbour that touches it
Occludes(b) == b \in {"stone", "dirt"}

Sides == {"W", "E", "N", "S"}

Neighbour(x, z, side) ==
    CASE side = "W" -> <<x - 1, z>>
      [] side = "E" -> <<x + 1, z>>
      [] side = "N" -> <<x, z - 1>>
      [] OTHER -> <<x, z + 1>>

\* a chunk processor with nothing added, and a delegate nothing was read through
EmptyProcessor ==
    [obj |-> [faces |-> {}, vertices |-> 0, materials |-> {}],
     chunks |-> [reads |-> 0]]

\* a full-cube block model: reads the four neighbours through the delegate
\* and adds a face, its vertices and the material for each side in the open
CubeAddModel(st, x, y, z, data, biome) ==
    LET open == {s \in Sides :
                    ~Occludes(BlockAt(Neighbour(x, z, s)[1], Neighbour(x, z, s)[2]))}
    IN  [obj |-> [faces |-> st.obj.faces \cup {<<x, y, z, s>> : s \in open},
                  vertices |-> st.obj.vertices + 4 * Cardinality(open),
                  materials |-> IF open = {} THEN st.obj.materials
                                ELSE st.obj.materials \cup {data}],
         chunks |-> [reads |-> st.chunks.reads + Cardinality(Sides)]]

\* a dummy model that looks at the block below through the delegate
NoneAddModelReads(st, x, y, z, data, biome) == [st EXCEPT !.chunks.reads = @ + 1]

\* None.addModel(obj, chunks, x, y, z, data, biome): the empty method body;
\* st holds the ChunkProcessor obj and the ThreadChunkDeligate chunks
NoneAddModel(st, x, y, z, data, biome) == st

\* the block model the registry resolves a block to
ModelOf(b) == IF b = "barrier" THEN "None" ELSE "Cube"

\* the chunk processor adds one block through its model
AddModel(st, x, y, z, data, biome) ==
    IF ModelOf(data) = "None" THEN NoneAddModel(st, x, y, z, data, biome)
    ELSE CubeAddModel(st, x, y, z, data, biome)

\* the chunk columns and rows that meet the bounds b at chunk size cs
ChunkXs(b, cs) == (b.minX \div cs)..(b.maxX \div cs)

ChunkZs(b, cs) == (b.minZ \div cs)..(b.maxZ \div cs)

\* the chunk jobs of a run, row by row: the same for every thread count
ChunkSeq(b, cs) ==
    LET nx == Cardinality(ChunkXs(b, cs))
        nz == Cardinality(ChunkZs(b, cs))
    IN  [i \in 1..(nx * nz) |->
            <<(b.minX \div cs) + ((i - 1) % nx), (b.minZ \div cs) + ((i - 1) \div nx)>>]

\* the first and last coordinate of chunk index c on an axis, trimmed to the
\* bounds lo..hi
ChunkLow(c, cs, lo) == Max(lo, c * cs)

\* a chunk that always spans its full grid cell
ChunkHighUntrimmed(c, cs, hi) == c * cs + cs - 1

ChunkHigh(c, cs, hi) == Min(hi, c * cs + cs - 1)

\* the coordinates of chunk c in the order the processor visits them
BlockSeq(c, b, cs) ==
    LET x0 == ChunkLow(c[1], cs, b.minX)
        z0 == ChunkLow(c[2], cs, b.minZ)
        nx == ChunkHigh(c[1], cs, b.maxX) - x0 + 1
        nz == ChunkHigh(c[2], cs, b.maxZ) - z0 + 1
    IN  [i \in 1..(nx * nz) |-> <<x0 + ((i - 1) % nx), z0 + ((i - 1) \div nx)>>]

\* the export volume
Volume(b) == {<<x, z>> : x \in b.minX..b.maxX, z \in b.minZ..b.maxZ}

IdleWorker == [pc |-> "off", chunk |-> <<>>, todo |-> <<>>, st |-> EmptyProcessor]

NoResult == [state |-> "Running", failed |-> {}, output |-> <<>>]

\* a scheduler that moves past the job behind the claimed one as well
PopJobSkips(q) == IF Len(q) > 1 THEN Tail(Tail(q)) ELSE Tail(q)

\* the scheduler takes the next unclaimed job off its queue
PopJob(q) == Tail(q)

\* a scheduler that logs the exception of a chunk job and forgets it
CaptureFailureLost(f, c) == f

\* the scheduler captures the exception of one chunk job
CaptureFailure(f, c) == f \cup {c}

\* an aggregator that writes the fragments out as they arrive
MergeByArrival(arr, chunks) == arr

\* the aggregator's merge: the fragments that arrived, in the order of their
\* chunk key, which is the order of the chunk jobs
MergeByKey(arr, chunks) ==
    LET present == {arr[i].chunk : i \in DOMAIN arr}
        In(c) == c \in present
        keys == SelectSeq(chunks, In)
    IN  [k \in DOMAIN keys |->
            arr[CHOOSE i \in DOMAIN arr : arr[i].chunk = keys[k]]]

\* a worker is free: it polls the cancellation flag and pulls the next
\* unclaimed chunk job, or stops when none is left or the run is cancelled
PullJob(w) ==
    /\ result.state = "Running"
    /\ workers[w].pc = "idle"
    /\ IF queue = <<>> \/ cancelFlag
       THEN /\ workers' = [workers EXCEPT ![w].pc = "done"]
            /\ UNCHANGED <<queue, claims>>
       ELSE /\ workers' = [workers EXCEPT
                              ![w] = [pc |-> "work", chunk |-> Head(queue),
                                      todo |-> BlockSeq(Head(queue), job.bounds,
                                                        job.chunkSize),
                                      st |-> EmptyProcessor]]
            /\ queue' = PopJob(queue)
            /\ claims' = [claims EXCEPT ![Head(queue)] = @ + 1]
    /\ UNCHANGED <<job, world, cancelFlag, failed, arrived, result, threw,
                   outsideEngine>>

\* the chunk processor of worker w adds the next block of its chunk
ProcessBlock(w) ==
    /\ workers[w].pc = "work"
    /\ workers[w].todo # <<>>
    /\ Head(workers[w].todo) \notin world.faulty
    /\ LET p == Head(workers[w].todo)
       IN  workers' = [workers EXCEPT
                          ![w].st = AddModel(@, p[1], 0, p[2], BlockId(p[1], p[2]),
                                             "plains"),
                          ![w].todo = Tail(@)]
    /\ UNCHANGED <<job, world, queue, cancelFlag, failed, arrived, result, claims,
                   threw, outsideEngine>>

\* the next block of the chunk cannot be decoded: the exception is captured
\* for this chunk job, and the worker is free for the next one
BlockThrows(w) ==
    /\ workers[w].pc = "work"
    /\ workers[w].todo # <<>>
    /\ Head(workers[w].todo) \in world.faulty
    /\ threw' = threw \cup {workers[w].chunk}
    /\ failed' = CaptureFailure(failed, workers[w].chunk)
    /\ workers' = [workers EXCEPT ![w] = [IdleWorker EXCEPT !.pc = "idle"]]
    /\ UNCHANGED <<job, world, queue, cancelFlag, arrived, result, claims,
                   outsideEngine>>

\* the chunk is done: its fragment goes to the aggregator
HandFragment(w) ==
    /\ workers[w].pc = "work"
    /\ workers[w].todo = <<>>
    /\ arrived' = Append(arrived, [chunk |-> workers[w].chunk,
                                   frag |-> workers[w].st.obj])
    /\ workers' = [workers EXCEPT ![w] = [IdleWorker EXCEPT !.pc = "idle"]]
    /\ UNCHANGED <<job, world, queue, cancelFlag, failed, result, claims, threw,
                   outsideEngine>>

\* the caller raises the cancellation flag
Cancel ==
    /\ result.state = "Running"
    /\ ~cancelFlag
    /\ cancelFlag' = TRUE
    /\ UNCHANGED <<job, world, queue, workers, failed, arrived, result, claims,
                   threw, outsideEngine>>

\* every worker has stopped: the run reports its result
FinishRun ==
    /\ result.state = "Running"
    /\ \A w \in DOMAIN workers : workers[w].pc \in {"off", "done"}
    /\ result' = IF queue # <<>>
                 THEN [state |-> "Cancelled", failed |-> failed, output |-> <<>>]
                 ELSE [state |-> IF failed # {} THEN "PartialFailure"
                                 ELSE "Completed",
                       failed |-> failed,
                       output |-> MergeByKey(arrived, job.chunks)]
    /\ UNCHANGED <<job, world, queue, workers, cancelFlag, failed, arrived, claims,
                   threw, outsideEngine>>

\* a run at its start: the scheduler has generated the chunk jobs of the
\* bounds b at chunk size cs, and n workers are free
EngineInit(b, cs, n, faulty) ==
    /\ job = [bounds |-> b, chunkSize |-> cs, threads |-> n,
              chunks |-> ChunkSeq(b, cs)]
    /\ world = [faulty |-> faulty]
    /\ queue = ChunkSeq(b, cs)
    /\ workers = [w \in 1..MaxWorkers |->
                     IF w <= n THEN [IdleWorker EXCEPT !.pc = "idle"] ELSE IdleWorker]
    /\ cancelFlag = FALSE
    /\ failed = {}
    /\ arrived = <<>>
    /\ result = NoResult
    /\ claims = [c \in {ChunkSeq(b, cs)[i] : i \in DOMAIN ChunkSeq(b, cs)} |-> 0]
    /\ threw = {}

\* no export run
EngineIdle ==
    /\ job = [bounds |-> [minX |-> 0, maxX |-> 0, minZ |-> 0, maxZ |-> 0],
              chunkSize |-> 1, threads |-> 0, chunks |-> <<>>]
    /\ world = [faulty |-> {}]
    /\ queue = <<>>
    /\ workers = [w \in 1..MaxWorkers |-> IdleWorker]
    /\ cancelFlag = FALSE
    /\ failed = {}
    /\ arrived = <<>>
    /\ result = [NoResult EXCEPT !.state = "Idle"]
    /\ claims = <<>>
    /\ threw = {}

(***************************************************************************)
(* ConsoleProgress (Main.java): the console progress bar, called by the    *)
(* threads of an export without any lock                                   *)
(***************************************************************************)

\* private static final int SIZE = 78
SIZE == 78

\* Integer.MAX_VALUE
MAX_VALUE == 2147483647

\* the threads that report progress, and how many calls each of them makes
NumCallers == 2

MaxCalls == 2

\* the values the callers pass, as fractions <<numerator, denominator>>: the
\* first thread reports the end of the work, the others the start of it
ProgressValues(t) == IF t = 1 THEN {<<1, 1>>} ELSE {<<0, 1>>}

\* Math.min((int)(SIZE * value), SIZE)
Curr(value) == Min((SIZE * value[1]) \div value[2], SIZE)

NoBar == [dots |-> 0, closes |-> 0, closedAt |-> 0]

OutsideCall == [pc |-> "out", curr |-> 0, r |-> 0, calls |-> 0]

\* a thread calls setProgress(value): line 139
SetProgress(t, value) ==
    /\ callers[t].pc = "out"
    /\ callers[t].calls < MaxCalls
    /\ callers' = [callers EXCEPT ![t].pc = "test", ![t].curr = Curr(value),
                                  ![t].calls = @ + 1]
    /\ UNCHANGED <<last, out, outsideProgress>>

\* line 140: if (curr < last)
TestRestart(t) ==
    /\ callers[t].pc = "test"
    /\ callers' = [callers EXCEPT
                      ![t].pc = IF callers[t].curr < last THEN "open" ELSE "loop"]
    /\ UNCHANGED <<last, out, outsideProgress>>

\* line 141: System.out.print("["), a new bar starts
PrintOpen(t) ==
    /\ callers[t].pc = "open"
    /\ out' = NoBar
    /\ callers' = [callers EXCEPT ![t].pc = "reset"]
    /\ UNCHANGED <<last, outsideProgress>>

\* line 142: last = 0
ResetLast(t) ==
    /\ callers[t].pc = "reset"
    /\ last' = 0
    /\ callers' = [callers EXCEPT ![t].pc = "loop"]
    /\ UNCHANGED <<out, outsideProgress>>

\* line 144: while (curr > last); the method returns when the test fails
TestLoop(t) ==
    /\ callers[t].pc = "loop"
    /\ callers' = [callers EXCEPT
                      ![t].pc = IF callers[t].curr > last THEN "dot" ELSE "out"]
    /\ UNCHANGED <<last, out, outsideProgress>>

\* line 145: System.out.print(".")
PrintDot(t) ==
    /\ callers[t].pc = "dot"
    /\ out' = [out EXCEPT !.dots = @ + 1]
    /\ callers' = [callers EXCEPT ![t].pc = "read"]
    /\ UNCHANGED <<last, outsideProgress>>

\* line 146, last++: the read of the field
ReadLast(t) ==
    /\ callers[t].pc = "read"
    /\ callers' = [callers EXCEPT ![t].pc = "write", ![t].r = last]
    /\ UNCHANGED <<last, out, outsideProgress>>

\* line 146, last++: the write of the field
WriteLast(t) ==
    /\ callers[t].pc = "write"
    /\ last' = callers[t].r + 1
    /\ callers' = [callers EXCEPT ![t].pc = "full", ![t].r = 0]
    /\ UNCHANGED <<out, outsideProgress>>

\* line 147: if (last == SIZE)
TestFull(t) ==
    /\ callers[t].pc = "full"
    /\ callers' = [callers EXCEPT ![t].pc = IF last = SIZE THEN "close" ELSE "loop"]
    /\ UNCHANGED <<last, out, outsideProgress>>

\* line 147: System.out.println("]")
PrintClose(t) ==
    /\ callers[t].pc = "close"
    /\ out' = [out EXCEPT !.closes = @ + 1, !.closedAt = out.dots]
    /\ callers' = [callers EXCEPT ![t].pc = "loop"]
    /\ UNCHANGED <<last, outsideProgress>>

\* new ConsoleProgress(): line 135
ProgressInit ==
    /\ last = MAX_VALUE
    /\ out = NoBar
    /\ callers = [t \in 1..NumCallers |-> OutsideCall]

(***************************************************************************)
(* WorldMapSelector: moving and resizing the selection rectangle           *)
(***************************************************************************)

\* how many mouse-downs and prop changes one behaviour may have
MaxGestures == 2

\* Math.max(10, ...): the smallest width and height a resize gives the
\* rectangle, in pixels
MIN_RECT_PX == 10

\* Math.round(n / d) for d > 0: halves go up
RoundDiv(n, d) == (2 * n + d) \div (2 * d)

\* the test of updateSelectionRect on the selected bounds
InvalidSelection(b) == b.minX > b.maxX \/ b.minZ > b.maxZ

\* updateSelectionRect on the element el for the bounds b at ppb pixels per
\* block: nothing while data-dragging is set or the bounds are invalid
UpdateSelectionRect(el, b, ppb) ==
    IF el.dragging \/ InvalidSelection(b) THEN el
    ELSE [el EXCEPT !.tx = b.minX * ppb,
                    !.ty = b.minZ * ppb,
                    !.w = Max(1, (b.maxX - b.minX) * ppb),
                    !.h = Max(1, (b.maxZ - b.minZ) * ppb)]

\* no mouse button is down on the selection
NoGesture ==
    [kind |-> "none", direction |-> "", initialBounds |-> ZeroBounds,
     initialTranslateX |-> 0, initialTranslateY |-> 0,
     initialWidth |-> 0, initialHeight |-> 0]

NoBoundsChange ==
    [made |-> FALSE, kind |-> "none", direction |-> "", from |-> ZeroBounds,
     bounds |-> ZeroBounds]

\* handleMouseUp of handleSelectionDragStart: the bounds it passes on for the
\* initial bounds b and the pixel delta (dX, dY)
MovedBounds(b, dX, dY, ppb) ==
    LET minX == RoundDiv(b.minX * ppb + dX, ppb)
        minZ == RoundDiv(b.minZ * ppb + dY, ppb)
    IN  [b EXCEPT !.minX = minX,
                  !.maxX = minX + (b.maxX - b.minX),
                  !.minZ = minZ,
                  !.maxZ = minZ + (b.maxZ - b.minZ)]

\* handleMouseUp of handleResizeStart: the named edges moved by the pixel
\* deltas of the rectangle's sides
ResizedEdges(b, direction, dLeft, dTop, dRight, dBottom, ppb) ==
    [b EXCEPT !.minX = IF Includes(direction, "w")
                       THEN RoundDiv(b.minX * ppb + dLeft, ppb) ELSE @,
              !.maxX = IF Includes(direction, "e")
                       THEN RoundDiv(b.maxX * ppb + dRight, ppb) ELSE @,
              !.minZ = IF Includes(direction, "n")
                       THEN RoundDiv(b.minZ * ppb + dTop, ppb) ELSE @,
              !.maxZ = IF Includes(direction, "s")
                       THEN RoundDiv(b.maxZ * ppb + dBottom, ppb) ELSE @]

\* handleMouseUp of handleResizeStart: a crossed pair of edges is closed on
\* the edge that was not dragged
OrderedEdges(b, direction) ==
    LET bx == IF b.minX > b.maxX
              THEN IF Includes(direction, "w") THEN [b EXCEPT !.minX = b.maxX]
                   ELSE [b EXCEPT !.maxX = b.minX]
              ELSE b
    IN  IF bx.minZ > bx.maxZ
        THEN IF Includes(direction, "n") THEN [bx EXCEPT !.minZ = bx.maxZ]
             ELSE [bx EXCEPT !.maxZ = bx.minZ]
        ELSE bx

ResizedBounds(g, el, ppb) ==
    LET dLeft == el.tx - g.initialTranslateX
        dTop == el.ty - g.initialTranslateY
        dRight == el.tx + el.w - (g.initialTranslateX + g.initialWidth)
        dBottom == el.ty + el.h - (g.initialTranslateY + g.initialHeight)
    IN  OrderedEdges(ResizedEdges(g.initialBounds, g.direction, dLeft, dTop,
                                  dRight, dBottom, ppb),
                     g.direction)

\* the parent passes new selectedBounds; the effect on [selectedBounds, zoom,
\* viewCenter] runs updateSelectionRect
ParentSelects(b) ==
    /\ gestures < MaxGestures
    /\ gestures' = gestures + 1
    /\ b # selectedBounds
    /\ selectedBounds' = b
    /\ selection' = UpdateSelectionRect(selection, b, pxPerBlock)
    /\ UNCHANGED <<mapDragging, mapResizing, resizeDirection, pxPerBlock, gesture,
                   mapTimers, reported, outsideMap>>

\* handleSelectionDragStart(e): lines 1926-1952 and 2008-2009
HandleSelectionDragStart ==
    /\ gesture.kind = "none"
    /\ gestures < MaxGestures
    /\ gestures' = gestures + 1
    /\ ~mapResizing
    /\ mapDragging' = TRUE
    /\ gesture' = [kind |-> "move", direction |-> "",
                   initialBounds |-> selectedBounds,
                   initialTranslateX |-> selection.tx,
                   initialTranslateY |-> selection.ty,
                   initialWidth |-> selection.w, initialHeight |-> selection.h]
    /\ selection' = [selection EXCEPT !.dragging = TRUE]
    /\ UNCHANGED <<selectedBounds, mapResizing, resizeDirection, pxPerBlock,
                   mapTimers, reported, outsideMap>>

\* handleResizeStart(e, direction): lines 2012-2043 and 2155-2156
HandleResizeStart(direction) ==
    /\ gesture.kind = "none"
    /\ gestures < MaxGestures
    /\ gestures' = gestures + 1
    /\ ~mapDragging
    /\ mapResizing' = TRUE
    /\ resizeDirection' = direction
    /\ gesture' = [kind |-> "resize", direction |-> direction,
                   initialBounds |-> selectedBounds,
                   initialTranslateX |-> selection.tx,
                   initialTranslateY |-> selection.ty,
                   initialWidth |-> selection.w, initialHeight |-> selection.h]
    /\ selection' = [selection EXCEPT !.dragging = TRUE]
    /\ UNCHANGED <<selectedBounds, mapDragging, pxPerBlock, mapTimers, reported,
                   outsideMap>>

\* the mousemove listener of the gesture, at the pixel delta (dX, dY) from
\* the mouse-down: lines 1953-1966 and 2044-2072
MapMouseMove(dX, dY) ==
    /\ gesture.kind # "none"
    /\ LET g == gesture
           d == g.direction
           newWidth == IF Includes(d, "w") THEN Max(MIN_RECT_PX, g.initialWidth - dX)
                       ELSE IF Includes(d, "e") THEN Max(MIN_RECT_PX, g.initialWidth + dX)
                       ELSE g.initialWidth
           newHeight == IF Includes(d, "n") THEN Max(MIN_RECT_PX, g.initialHeight - dY)
                        ELSE IF Includes(d, "s") THEN Max(MIN_RECT_PX, g.initialHeight + dY)
                        ELSE g.initialHeight
       IN  selection' =
               IF g.kind = "move"
               THEN [selection EXCEPT !.tx = g.initialTranslateX + dX,
                                      !.ty = g.initialTranslateY + dY]
               ELSE [selection EXCEPT
                        !.w = newWidth,
                        !.h = newHeight,
                        !.tx = IF Includes(d, "w")
                               THEN g.initialTranslateX + g.initialWidth - newWidth
                               ELSE g.initialTranslateX,
                        !.ty = IF Includes(d, "n")
                               THEN g.initialTranslateY + g.initialHeight - newHeight
                               ELSE g.initialTranslateY]
    /\ selection' # selection
    /\ UNCHANGED <<selectedBounds, mapDragging, mapResizing, resizeDirection,
                   pxPerBlock, gesture, mapTimers, reported, gestures, outsideMap>>

\* the mouseup listener of the gesture, at the pixel delta (dX, dY): the new
\* bounds go to onBoundsChange, the parent passes them back as selectedBounds,
\* and the 50 ms timer is set: lines 1967-2007 and 2073-2154
MapMouseUp(dX, dY) ==
    /\ gesture.kind # "none"
    /\ LET newBounds == IF gesture.kind = "move"
                        THEN MovedBounds(gesture.initialBounds, dX, dY, pxPerBlock)
                        ELSE ResizedBounds(gesture, selection, pxPerBlock)
       IN  /\ reported' = [made |-> TRUE, kind |-> gesture.kind,
                           direction |-> gesture.direction,
                           from |-> gesture.initialBounds, bounds |-> newBounds]
           /\ selectedBounds' = newBounds
           /\ selection' = UpdateSelectionRect(selection, newBounds, pxPerBlock)
    /\ mapTimers' = Append(mapTimers, gesture.kind)
    /\ gesture' = NoGesture
    /\ UNCHANGED <<mapDragging, mapResizing, resizeDirection, pxPerBlock, gestures,
                   outsideMap>>

\* the 50 ms timer of a mouseup: lines 1999-2004 and 2145-2151
MapTimer ==
    /\ mapTimers # <<>>
    /\ mapTimers' = Tail(mapTimers)
    /\ selection' = [selection EXCEPT !.dragging = FALSE]
    /\ IF Head(mapTimers) = "move"
       THEN /\ mapDragging' = FALSE
            /\ UNCHANGED <<mapResizing, resizeDirection>>
       ELSE /\ mapResizing' = FALSE
            /\ resizeDirection' = ""
            /\ UNCHANGED mapDragging
    /\ UNCHANGED <<selectedBounds, pxPerBlock, gesture, reported, gestures,
                   outsideMap>>

\* forceUpdate of the effect on [mapRef.current, selectedBounds], and the
\* ResizeObserver: updateSelectionRect some time after the last render
ForceUpdate ==
    /\ selection' = UpdateSelectionRect(selection, selectedBounds, pxPerBlock)
    /\ selection' # selection
    /\ UNCHANGED <<selectedBounds, mapDragging, mapResizing, resizeDirection,
                   pxPerBlock, gesture, mapTimers, reported, gestures, outsideMap>>

\* WorldMapSelector mounted with the selection b at ppb pixels per block
MapInit(b, ppb) ==
    /\ selectedBounds = b
    /\ mapDragging = FALSE
    /\ mapResizing = FALSE
    /\ resizeDirection = ""
    /\ pxPerBlock = ppb
    /\ selection = UpdateSelectionRect([tx |-> 0, ty |-> 0, w |-> 0, h |-> 0,
                                        dragging |-> FALSE], b, ppb)
    /\ gesture = NoGesture
    /\ mapTimers = <<>>
    /\ reported = NoBoundsChange
    /\ gestures = 0

\* no WorldMapSelector on the page
MapIdle == MapInit(ZeroBounds, 1)

InitOptions ==
    /\ \E p \in StoredPrefs : ExportWindowInit(p)
    /\ ExportInit({}, FALSE)
    /\ SettingsInit([ok |-> TRUE, packs |-> <<>>, useDefault |-> TRUE], TRUE)
    /\ MainReady
    /\ RegionInit(NoWorld, NoRegion)
    /\ EngineIdle
    /\ ProgressInit
    /\ MapIdle

NextOptions ==
    \/ \E b \in VariedBoxes : ClickCheckBox(b)
    \/ \E v \in SpinnerInputs : SpinnerChange(v)

SpecOptions == InitOptions /\ [][NextOptions]_vars

(***************************************************************************)
(* The export window with its export thread                                *)
(***************************************************************************)

\* the stored preferences of the export runs: the defaults, with or without
\* a last export
ExportPrefs ==
    {[p EXCEPT !["LAST_EXPORT_PATH"] = l, !["USE_LAST_SAVE_LOC"] = l,
               !["LAST_USED_NAME"] = IF l THEN <<"m", ".obj">> ELSE <<>>] :
        p \in {q \in StoredPrefs : /\ q["EXPORT_THREADS"] = DEFAULT_EXPORT_THREADS
                                    /\ \A b \in VariedBoxes :
                                           q[PrefKey(b)] = PrefDefault(b)},
        l \in BOOLEAN}

\* the files the output directory may hold at the start
DiskFiles == {{}, {<<"m", ".mtl">>}, {<<"m", ".obj">>, <<"m", ".mtl">>}}

\* the checkboxes the model clicks while exports run
RunBoxes == {"UseLastSaveLoc"}

InitExport ==
    /\ \E p \in ExportPrefs : ExportWindowInit(p)
    /\ \E fs \in DiskFiles : ExportInit(fs, FALSE)
    /\ SettingsInit([ok |-> TRUE, packs |-> <<>>, useDefault |-> TRUE], TRUE)
    /\ MainReady
    /\ RegionInit(NoWorld, NoRegion)
    /\ EngineIdle
    /\ ProgressInit
    /\ MapIdle

NextExport ==
    \/ MapLoaded
    \/ StartExport
    \/ \E a \in Answers : LastObjAnswer(a)
    \/ \E a \in Answers : LastMtlAnswer(a)
    \/ \E n \in ChooserNames : ApproveSelection(n)
    \/ \E a \in Answers : ObjExistsAnswer(a)
    \/ \E a \in Answers : MtlExistsAnswer(a)
    \/ CancelChooser
    \/ ForceStop
    \/ \E t \in ThreadIds : ThreadBegin(t)
    \/ \E t \in ThreadIds : ExportPoll(t)
    \/ \E t \in ThreadIds : ExportChunk(t)
    \/ \E t \in ThreadIds : ExportSerialize(t)
    \/ \E t \in ThreadIds : ThreadEnd(t)
    \/ \E b \in RunBoxes : ClickCheckBox(b)

SpecExport == InitExport /\ [][NextExport]_vars

(***************************************************************************)
(* The Settings window next to an export                                   *)
(***************************************************************************)

InitSettings ==
    /\ ExportWindowInit(CHOOSE p \in ExportPrefs : ~p["LAST_EXPORT_PATH"])
    /\ ExportInit({}, FALSE)
    /\ \E pp \in StoredPacks, jar \in BOOLEAN : SettingsInit(pp, jar)
    /\ MainReady
    /\ RegionInit(NoWorld, NoRegion)
    /\ EngineIdle
    /\ ProgressInit
    /\ MapIdle

NextSettings ==
    \/ \E fs \in Selections : AddPacks(fs)
    \/ \E fs \in Selections : ImportData(fs)
    \/ \E i \in 1..MaxPacks : SelectPack(i)
    \/ PackRemove
    \/ PackUp
    \/ PackDown
    \/ ClickUsePackDefault
    \/ ReloadButton
    \/ WindowActivated
    \/ MapLoaded
    \/ StartExport
    \/ \E n \in {<<"m">>} : ApproveSelection(n)
    \/ \E a \in Answers : ObjExistsAnswer(a)
    \/ \E a \in Answers : MtlExistsAnswer(a)
    \/ CancelChooser
    \/ \E t \in ThreadIds : ThreadBegin(t)
    \/ \E t \in ThreadIds : ExportPoll(t)
    \/ \E t \in ThreadIds : ExportChunk(t)
    \/ \E t \in ThreadIds : ExportSerialize(t)
    \/ \E t \in ThreadIds : ThreadEnd(t)

SpecSettings == InitSettings /\ [][NextSettings]_vars

(***************************************************************************)
(* Program start, followed by exports                                      *)
(***************************************************************************)

InitMain ==
    /\ ExportWindowInit(CHOOSE p \in ExportPrefs : ~p["LAST_EXPORT_PATH"])
    /\ ExportInit({}, FALSE)
    /\ SettingsInit([ok |-> TRUE, packs |-> <<>>, useDefault |-> TRUE], TRUE)
    /\ \E m \in {"GUI", "CONSOLE"} : MainInit(m)
    /\ RegionInit(NoWorld, NoRegion)
    /\ EngineIdle
    /\ ProgressInit
    /\ MapIdle

NextMain ==
    \/ RunGUI
    \/ \E ok, exportWorld \in BOOLEAN : RunConsole(ok, exportWorld)
    \/ InitializeReturns
    \/ InitializeThrows
    \/ ConsoleExport
    \/ MapLoaded
    \/ StartExport
    \/ \E n \in {<<"m">>} : ApproveSelection(n)
    \/ \E a \in Answers : ObjExistsAnswer(a)
    \/ \E a \in Answers : MtlExistsAnswer(a)
    \/ CancelChooser
    \/ \E t \in ThreadIds : ThreadBegin(t)
    \/ \E t \in ThreadIds : ExportPoll(t)
    \/ \E t \in ThreadIds : ExportChunk(t)
    \/ \E t \in ThreadIds : ExportSerialize(t)
    \/ \E t \in ThreadIds : ThreadEnd(t)

SpecMain == InitMain /\ [][NextMain]_vars

(***************************************************************************)
(* The region selector                                                     *)
(***************************************************************************)

SizeInputs == {"", "0", "3", "9", "-2", "abc"}

CenterInputs == {"-", "3x", "-2"}

OffsetInputs == {"", "3"}

InitRegion ==
    /\ ExportWindowInit(CHOOSE p \in ExportPrefs : ~p["LAST_EXPORT_PATH"])
    /\ ExportInit({}, FALSE)
    /\ SettingsInit([ok |-> TRUE, packs |-> <<>>, useDefault |-> TRUE], TRUE)
    /\ MainReady
    /\ \E wd \in Worlds, ir \in Regions : RegionInit(wd, ir)
    /\ EngineIdle
    /\ ProgressInit
    /\ MapIdle

NextRegion ==
    \/ Render
    \/ \E axis \in {"x", "y"}, value \in SizeInputs : HandleSizeChange(axis, value)
    \/ \E axis \in {"x", "y"}, value \in CenterInputs : HandleCenterChange(axis, value)
    \/ \E value \in OffsetInputs : HandleOffsetChange("x", value)
    \/ ClickSelectEntireWorld
    \/ JiggleUp
    \/ JiggleDown

SpecRegion == InitRegion /\ [][NextRegion]_vars

(***************************************************************************)
(* One run of the export engine                                            *)
(***************************************************************************)

\* the export bounds of the jobs (x and z)
ExportBounds ==
    {[minX |-> -1, maxX |-> 1, minZ |-> 0, maxZ |-> 0],
     [minX |-> 0, maxX |-> 2, minZ |-> 0, maxZ |-> 1]}

\* the coordinates the World Data Source cannot decode
FaultySets == {{}, {<<0, 0>>}, {<<0, 0>>, <<2, 1>>}}

InitEngine ==
    /\ ExportWindowInit(CHOOSE p \in ExportPrefs : ~p["LAST_EXPORT_PATH"])
    /\ ExportInit({}, FALSE)
    /\ SettingsInit([ok |-> TRUE, packs |-> <<>>, useDefault |-> TRUE], TRUE)
    /\ MainReady
    /\ RegionInit(NoWorld, NoRegion)
    /\ ProgressInit
    /\ MapIdle
    /\ \E b \in ExportBounds, cs \in 1..MaxChunkSize, n \in 1..MaxWorkers,
          f \in FaultySets : EngineInit(b, cs, n, f)

NextEngine ==
    \/ \E w \in 1..MaxWorkers : PullJob(w)
    \/ \E w \in 1..MaxWorkers : ProcessBlock(w)
    \/ \E w \in 1..MaxWorkers : BlockThrows(w)
    \/ \E w \in 1..MaxWorkers : HandFragment(w)
    \/ Cancel
    \/ FinishRun

SpecEngine == InitEngine /\ [][NextEngine]_vars

\* a worker thread that can take a step takes one, and the run reports once
\* its workers have stopped
WorkerStep(w) == PullJob(w) \/ ProcessBlock(w) \/ BlockThrows(w) \/ HandFragment(w)

SpecEngineFair ==
    /\ SpecEngine
    /\ \A w \in 1..MaxWorkers : WF_vars(WorkerStep(w))
    /\ WF_vars(FinishRun)

(***************************************************************************)
(* The console progress bar under concurrent callers                       *)
(***************************************************************************)

InitProgress ==
    /\ ExportWindowInit(CHOOSE p \in ExportPrefs : ~p["LAST_EXPORT_PATH"])
    /\ ExportInit({}, FALSE)
    /\ SettingsInit([ok |-> TRUE, packs |-> <<>>, useDefault |-> TRUE], TRUE)
    /\ MainReady
    /\ RegionInit(NoWorld, NoRegion)
    /\ EngineIdle
    /\ ProgressInit
    /\ MapIdle

NextProgress ==
    \/ \E t \in 1..NumCallers : \E value \in ProgressValues(t) : SetProgress(t, value)
    \/ \E t \in 1..NumCallers : TestRestart(t)
    \/ \E t \in 1..NumCallers : PrintOpen(t)
    \/ \E t \in 1..NumCallers : ResetLast(t)
    \/ \E t \in 1..NumCallers : TestLoop(t)
    \/ \E t \in 1..NumCallers : PrintDot(t)
    \/ \E t \in 1..NumCallers : ReadLast(t)
    \/ \E t \in 1..NumCallers : WriteLast(t)
    \/ \E t \in 1..NumCallers : TestFull(t)
    \/ \E t \in 1..NumCallers : PrintClose(t)

SpecProgress == InitProgress /\ [][NextProgress]_vars

(***************************************************************************)
(* The region selector's map: clicks and drags                             *)
(***************************************************************************)

\* the rounded svg coordinates of the mouse events
MapPoints == {[x |-> 0, z |-> 0], [x |-> 2, z |-> 1]}

\* the edge handles the model drags
DragDirections == {"e", "nw"}

InitDrag ==
    /\ ExportWindowInit(CHOOSE p \in ExportPrefs : ~p["LAST_EXPORT_PATH"])
    /\ ExportInit({}, FALSE)
    /\ SettingsInit([ok |-> TRUE, packs |-> <<>>, useDefault |-> TRUE], TRUE)
    /\ MainReady
    /\ RegionInit(NoWorld, NoRegion)
    /\ EngineIdle
    /\ ProgressInit
    /\ MapIdle

NextDrag ==
    \/ Render
    \/ \E p \in MapPoints : HandleMapClick(p)
    \/ \E d \in DragDirections, p \in MapPoints : HandleDragStart(d, p)
    \/ \E p \in MapPoints : HandleDragMove(p)
    \/ MouseUp
    \/ MouseLeave
    \/ \E d \in {"top", "bottom"} : YHandleMouseDown(d)
    \/ ClearJustFinishedDrag

\* a commit that is due takes place, and a timer that is set fires
SpecDrag ==
    /\ InitDrag
    /\ [][NextDrag]_vars
    /\ WF_vars(Render)
    /\ WF_vars(ClearJustFinishedDrag)

(***************************************************************************)
(* The world map selector                                                  *)
(***************************************************************************)

\* the selections the parent passes: regions, and bounds whose edges are in
\* the wrong order, which updateSelectionRect tests for
SelectionProps ==
    {[minX |-> 0, maxX |-> 3, minZ |-> 0, maxZ |-> 1, minY |-> 0, maxY |-> 5],
     [minX |-> 2, maxX |-> 2, minZ |-> 1, maxZ |-> 4, minY |-> 0, maxY |-> 5],
     [minX |-> 3, maxX |-> 1, minZ |-> 0, maxZ |-> 1, minY |-> 0, maxY |-> 5]}

\* the pixel deltas of the mouse events
PixelDeltas == {-13, 3}

\* the resize handles the model drags
ResizeDirections == {"nw", "e"}

InitMap ==
    /\ ExportWindowInit(CHOOSE p \in ExportPrefs : ~p["LAST_EXPORT_PATH"])
    /\ ExportInit({}, FALSE)
    /\ SettingsInit([ok |-> TRUE, packs |-> <<>>, useDefault |-> TRUE], TRUE)
    /\ MainReady
    /\ RegionInit(NoWorld, NoRegion)
    /\ EngineIdle
    /\ ProgressInit
    /\ \E b \in {p \in SelectionProps : ~InvalidSelection(p)}, ppb \in {1, 2} :
           MapInit(b, ppb)

NextMap ==
    \/ \E b \in SelectionProps : ParentSelects(b)
    \/ HandleSelectionDragStart
    \/ \E d \in ResizeDirections : HandleResizeStart(d)
    \/ \E dX \in PixelDeltas, dY \in PixelDeltas : MapMouseMove(dX, dY)
    \/ \E dX \in PixelDeltas, dY \in PixelDeltas : MapMouseUp(dX, dY)
    \/ MapTimer
    \/ ForceUpdate

SpecMap == InitMap /\ [][NextMap]_vars

(***************************************************************************)
(* Properties of the export options (SpecOptions)                          *)
(***************************************************************************)

GroupingFlags == {"objectPerMaterial", "objectPerChunk", "objectPerBlock"}

C4_PerBlockNoOptimiseNoMerge ==
    opt.objectPerBlock => ~opt.optimiseGeometry /\ ~opt.removeDuplicates

\* C4, amended: whenever Options.objectPerBlock is true, optimiseGeometry is
\* false; removeDuplicates follows its checkbox whatever the grouping.
C4_PerBlockNoOptimise == opt.objectPerBlock => ~opt.optimiseGeometry

\* per-block is on while the optimise-geometry checkbox is still selected
C4_Witness == opt.objectPerBlock /\ chk["OptimiseGeo"] /\ ~enabled["OptimiseGeo"]

\* C10: Options.exportThreads is within 1..512 in every reachable state,
\* whatever EXPORT_THREADS preference loadSettings read.
C10_ThreadsInRange == opt.exportThreads \in SPINNER_MIN..SPINNER_MAX

(***************************************************************************)
(* Properties of the export thread (SpecExport)                            *)
(***************************************************************************)

\* the run of th neither started a chunk job after the stop request, nor
\* completed, nor wrote a file, and ended as Cancelled if it has ended
Stopped(th) ==
    /\ ~th.chunkAfterStop
    /\ th.result # "Completed"
    /\ ~th.written
    /\ th.pc = "exported" => th.result = "Cancelled"

C5_OptionsFrozenDuringRun ==
    \A t \in ThreadIds : Alive(threads[t]) => opt = threads[t].cfg

(***************************************************************************)
(* Properties of the resource packs (SpecSettings)                         *)
(***************************************************************************)

\* C6: while an export thread is running, no step modifies
\* Options.resourcePacks or reloads the registries.
C6_PacksFrozenDuringExport ==
    [][(\E t \in ThreadIds : Alive(threads[t]))
          => resourcePacks' = resourcePacks /\ registry' = registry]_vars

\* C8, as stated: after every updateResourcePacks with the default pack
\* selected, Options.resourcePacks is the user's packs in list order followed
\* by the Minecraft jar as the last element.
C8_DefaultPackLast ==
    usePackDefault => resourcePacks = Append(listPacks, MinecraftJar)

\* C8, amended: after every updateResourcePacks with the default pack
\* selected, Options.resourcePacks is the user's packs in list order, followed
\* by the Minecraft jar as the last element when a jar is found and by nothing
\* when none is found.
C8_DefaultPackLastIfFound ==
    usePackDefault =>
        resourcePacks = IF mcJar THEN Append(listPacks, MinecraftJar) ELSE listPacks

\* a listener has rebuilt the packs from two different user packs, the default
\* pack selected and found
C8_Witness ==
    /\ updated.by # "init"
    /\ usePackDefault /\ mcJar
    /\ Len(listPacks) = 2 /\ listPacks[1] # listPacks[2]
    /\ resourcePacks[3] = MinecraftJar

\* C9: resolution takes the first pack of the list that defines a type, and
\* packs newly added through the Settings window stand at the front of the
\* list, so every type they define resolves to one of them and not to a pack
\* configured before, the default pack included.
C9_AddedPackWins ==
    updated.added # {} =>
        /\ listPacks[1] \in updated.added
        /\ \A f \in updated.added : \A b \in Defines(f) :
               Resolve(registry.packs, b) \in updated.added

\* pack A was added on top of pack B, which defines the same type, with the
\* default pack behind both
C9_Witness ==
    /\ updated.by = "add" /\ updated.added = {"A"}
    /\ listPacks = <<"A", "B">>
    /\ registry.packs = <<"A", "B", MinecraftJar>>
    /\ Resolve(registry.packs, 1) = "A"

(***************************************************************************)
(* Properties of program start (SpecMain)                                  *)
(***************************************************************************)

\* ObjExporter.export has been called, by runConsole or by an export thread
ExportStarted ==
    \/ consoleExport = "started"
    \/ \E t \in ThreadIds : threads[t].pc \notin {"unborn", "started"}

C1_ClippedAtRequestedCorner ==
    /\ lastReport.made => lastReport.region = TrimmedBounds(lastReport.from)
    /\ Idle /\ lastTrim.made => bounds = lastTrim.region

(***************************************************************************)
(* Properties of the export engine (SpecEngine, SpecEngineFair)            *)
(***************************************************************************)

\* the last block the chunk processor of worker w has visited
LastVisited(w) ==
    LET bs == BlockSeq(workers[w].chunk, job.bounds, job.chunkSize)
    IN  bs[Len(bs) - Len(workers[w].todo)]

\* C11: whenever a chunk processor adds a block whose model is None, at any
\* position and for any block data, the faces, vertices and materials of the
\* processor stay as they were and nothing is read through the chunk delegate
C11_NoneAddsNothing ==
    [][\A w \in 1..MaxWorkers :
          (/\ ProcessBlock(w)
           /\ ModelOf(BlockId(Head(workers[w].todo)[1], Head(workers[w].todo)[2]))
                  = "None")
          => workers'[w].st = workers[w].st]_vars

\* a processor that holds faces has visited a None block last
C11_Witness ==
    \E w \in 1..MaxWorkers :
        /\ workers[w].pc = "work"
        /\ Len(workers[w].todo) <
               Len(BlockSeq(workers[w].chunk, job.bounds, job.chunkSize))
        /\ ModelOf(BlockId(LastVisited(w)[1], LastVisited(w)[2])) = "None"
        /\ workers[w].st.obj.faces # {}

\* the chunks whose fragment the result holds
OutputChunks == {result.output[i].chunk : i \in DOMAIN result.output}

AllChunks == {job.chunks[i] : i \in DOMAIN job.chunks}

\* C12: an exception raised while a chunk is processed is captured for that
\* job only: the step leaves the other workers, the pending jobs and the
\* fragments that have arrived as they were; once all jobs have finished, a
\* run in which a chunk threw reports PartialFailure with exactly the chunks
\* that threw and the fragments of all others, and a run in which a chunk
\* threw never reports Completed
C12_FailuresIsolated ==
    /\ [][\A w \in 1..MaxWorkers :
             BlockThrows(w) =>
                 /\ \A v \in 1..MaxWorkers \ {w} : workers'[v] = workers[v]
                 /\ workers'[w].pc = "idle"
                 /\ queue' = queue
                 /\ arrived' = arrived]_vars
    /\ []((result.state \notin {"Running", "Cancelled"} /\ threw # {})
             => /\ result.state = "PartialFailure"
                /\ result.failed = threw
                /\ OutputChunks = AllChunks \ threw)
    /\ [](threw # {} => result.state # "Completed")

\* a run of two workers ended in PartialFailure with fragments in its output
C12_Witness ==
    /\ result.state = "PartialFailure"
    /\ threw # {}
    /\ result.output # <<>>
    /\ job.threads > 1

\* one chunk processor visiting the blocks bs in order
RECURSIVE ProcessAll(_, _)
ProcessAll(st, bs) ==
    IF bs = <<>> THEN st
    ELSE ProcessAll(AddModel(st, Head(bs)[1], 0, Head(bs)[2],
                             BlockId(Head(bs)[1], Head(bs)[2]), "plains"), Tail(bs))

\* what one thread produces when it takes the chunk jobs one by one from
\* first to last
SequentialOutput(b, cs) ==
    [i \in DOMAIN ChunkSeq(b, cs) |->
        [chunk |-> ChunkSeq(b, cs)[i],
         frag |-> ProcessAll(EmptyProcessor, BlockSeq(ChunkSeq(b, cs)[i], b, cs)).obj]]

\* C13: the merged output of a completed run is the output of the one-thread,
\* first-to-last run of the same job on the same world, whatever the thread
\* count and the order in which the chunks completed: any two completed runs
\* of a job produce the same output
C13_OutputDeterministic ==
    result.state = "Completed"
        => result.output = SequentialOutput(job.bounds, job.chunkSize)

\* a completed run of several workers whose fragments arrived out of key order
C13_Witness ==
    /\ result.state = "Completed"
    /\ job.threads > 1
    /\ Len(arrived) > 1
    /\ arrived # result.output

\* the coordinates the chunk processor of chunk job c visits
BlocksOf(c) ==
    {BlockSeq(c, job.bounds, job.chunkSize)[i] :
        i \in DOMAIN BlockSeq(c, job.bounds, job.chunkSize)}

\* C14: the chunks generated for a job partition its export volume: no two
\* chunk jobs share a coordinate, no chunk job occurs twice, and the union of
\* the chunks is the export volume, for every bounds, chunk size and thread
\* count
C14_ChunksPartitionVolume ==
    result.state # "Idle" =>
        /\ \A i, j \in DOMAIN job.chunks :
               i # j => BlocksOf(job.chunks[i]) \cap BlocksOf(job.chunks[j]) = {}
        /\ UNION {BlocksOf(c) : c \in AllChunks} = Volume(job.bounds)
        /\ \A c \in AllChunks : BlocksOf(c) # {}

\* a finished run over several chunks, one of them cut by the bounds
C14_Witness ==
    /\ result.state = "Completed"
    /\ Len(job.chunks) > 1
    /\ \E c \in AllChunks : Cardinality(BlocksOf(c)) < job.chunkSize * job.chunkSize
    /\ \E c \in AllChunks : Cardinality(BlocksOf(c)) = job.chunkSize * job.chunkSize

\* how many fragments of chunk c the aggregator was handed
Handed(c) == Cardinality({i \in DOMAIN arrived : arrived[i].chunk = c})

\* C15: under any interleaving of the workers no chunk job is claimed twice
\* and no two workers hold the same chunk; every run ends, a run that was
\* neither cancelled nor hit by an exception ends Completed, and in a
\* Completed run the aggregator was handed the fragment of every chunk
\* exactly once
C15_EachChunkOnce ==
    /\ [](\A c \in AllChunks : claims[c] <= 1)
    /\ [](\A v, w \in 1..MaxWorkers :
            (v # w /\ workers[v].pc = "work" /\ workers[w].pc = "work")
                => workers[v].chunk # workers[w].chunk)
    /\ [](\A c \in AllChunks : Handed(c) <= 1)
    /\ <>(result.state # "Running")
    /\ []((result.state # "Running" /\ ~cancelFlag /\ threw = {})
             => result.state = "Completed")
    /\ [](result.state = "Completed" => \A c \in AllChunks : Handed(c) = 1)

\* two workers have shared the chunks of a completed run
C15_Witness ==
    /\ result.state = "Completed"
    /\ job.threads > 1
    /\ Len(job.chunks) > 2
    /\ \A c \in AllChunks : claims[c] = 1 /\ Handed(c) = 1

(***************************************************************************)
(* Properties of the console progress bar (SpecProgress)                   *)
(***************************************************************************)

\* C16: with setProgress called by several threads at once, what System.out
\* holds since the last "[" is still one bar: at most SIZE dots, at most one
\* "]", and the "]" printed when the bar had exactly SIZE dots
C16_BarWellFormed ==
    /\ out.dots <= SIZE
    /\ out.closes <= 1
    /\ out.closes = 1 => out.closedAt = SIZE

(***************************************************************************)
(* Properties of the region selector's size, bounds and map (SpecRegion,   *)
(* SpecDrag)                                                               *)
(***************************************************************************)

\* the positive whole number a text of the size field stands for, 0 if none
PositiveNumber(t) == IF t = "3" THEN 3 ELSE IF t = "9" THEN 9 ELSE 0

\* C17: handleSizeChange leaves the size as it is for an input that is empty,
\* "0", not a number or not positive; for any other input it sets the named
\* axis to the smaller of the number and the maximum import size of the axis,
\* a value within 1..maximum, and leaves the two other axes as they are
C17_SizeChangeValidated ==
    [][\A axis \in {"x", "y", "z"}, value \in SizeInputs :
          HandleSizeChange(axis, value) =>
              IF PositiveNumber(value) = 0 THEN size' = size
              ELSE /\ size'[axis] = Min(PositiveNumber(value), MaxSize(axis))
                   /\ size'[axis] \in 1..MaxSize(axis)
                   /\ \A other \in {"x", "y", "z"} \ {axis} :
                          size'[other] = size[other]]_vars

\* a width above the maximum was typed: the size holds the maximum, the
\* bounds are still those of the width before
C17_Witness ==
    /\ render.pending
    /\ render.dirtySize
    /\ ~render.dirtyCenter
    /\ ~render.dirtyBounds
    /\ lastTrim = NoTrim
    /\ size.x = MAX_IMPORT_SIZE_X
    /\ Width(bounds) < MAX_IMPORT_SIZE_X

\* C18: the bounds the effect on [size, center, worldData] computes have the
\* width and the depth of the size, hold the center on the x and the z axis,
\* and have the height of the size unless their top is the world's maximum Y
C18_BoundsCenteredWithSize ==
    [][(Render /\ (~render.mounted \/ render.dirtySize \/ render.dirtyCenter))
          => /\ Width(bounds') = size.x
             /\ Depth(bounds') = size.z
             /\ bounds'.minX <= center.x /\ center.x <= bounds'.maxX
             /\ bounds'.minZ <= center.z /\ center.z <= bounds'.maxZ
             /\ Height(bounds') = size.y \/ bounds'.maxY = WorldMaxY(worldData)]_vars

\* settled bounds around a typed center, one axis of even and one of odd size
C18_Witness ==
    /\ Idle
    /\ center.x = -2
    /\ size.x = 3
    /\ size.z % 2 = 0
    /\ bounds.minX = -3
    /\ bounds.maxX = -1

\* the selection lo..hi is the whole world extent wlo..whi when that fits the
\* maximum size max, and else has the size max and lies within wlo..whi
WholeAxis(lo, hi, wlo, whi, max) ==
    IF whi - wlo + 1 <= max THEN lo = wlo /\ hi = whi
    ELSE hi - lo + 1 = max /\ wlo <= lo /\ hi <= whi

\* C19: selectEntireWorld sets both offsets to 0, and once the size and the
\* center it has set are rendered, the selected bounds are the world bounds
\* on every axis the world fits the maximum import size on, and on the other
\* axes have the maximum size and lie inside the world bounds
C19_EntireWorldSelected ==
    /\ [][ClickSelectEntireWorld => offsets' = [x |-> 0, z |-> 0]]_vars
    /\ []((/\ Idle
           /\ worldData.has
           /\ size = WorldSize(worldData.bounds)
           /\ center = WorldCenter(worldData.bounds))
          => /\ WholeAxis(bounds.minX, bounds.maxX, worldData.bounds.minX,
                          worldData.bounds.maxX, MAX_IMPORT_SIZE_X)
             /\ WholeAxis(bounds.minY, bounds.maxY, worldData.bounds.minY,
                          worldData.bounds.maxY, MAX_IMPORT_SIZE_Y)
             /\ WholeAxis(bounds.minZ, bounds.maxZ, worldData.bounds.minZ,
                          worldData.bounds.maxZ, MAX_IMPORT_SIZE_Z))

\* a mouse-up or mouse-leave that reaches handleDragEnd while an edge is dragged
EndsEdgeDrag == (MouseUp \/ MouseLeave) /\ dragOperation # NoDrag

\* C20: a drag never triggers a map click: handleMapClick leaves the center
\* unchanged whenever an edge drag is in progress (dragOperation is set) or
\* justFinishedDrag is set; every handleDragEnd of an active drag sets
\* justFinishedDrag and clears dragOperation, dragStartBounds and isDragging;
\* and justFinishedDrag is eventually cleared again, after which a click with
\* no drag in progress moves the center to the clicked point
C20_DragNeverClicks ==
    /\ [][\A p \in MapPoints :
            HandleMapClick(p) =>
                IF dragOperation # NoDrag \/ justFinishedDrag
                THEN center' = center
                ELSE center'.x = p.x /\ center'.z = p.z]_vars
    /\ [][EndsEdgeDrag => /\ justFinishedDrag'
                          /\ dragOperation' = NoDrag
                          /\ dragStartBounds' = NoStartBounds
                          /\ ~isDragging']_vars
    /\ (justFinishedDrag ~> ~justFinishedDrag)

\* an edge drag that was moved has ended: the flag is set, its timer is
\* running, and a click made now is one the drag must not trigger
C20_Witness ==
    /\ Idle
    /\ justFinishedDrag
    /\ clearTimers = 1
    /\ dragOperation = NoDrag
    /\ yDragOperation = NoDrag
    /\ docListeners = <<>>
    /\ dragStartBounds = NoStartBounds
    /\ ~isDragging
    /\ dragEvents >= 2
    /\ \E p \in MapPoints : p.x # center.x \/ p.z # center.z

\* an export thread started by runExport is still running
ExportRunning == \E t \in ThreadIds : Alive(threads[t])

\* C22: the export buttons reflect whether an export is running: while an
\* export thread started by runExport is still running, Start Export is
\* disabled and Force Stop is enabled, and while none is running, Force Stop
\* is disabled
C22_ButtonsReflectRun ==
    /\ ExportRunning => ~btnStartExport /\ btnForceStop
    /\ ~ExportRunning => ~btnForceStop

\* the threads a step creates
StartedBy(ths1, ths2) == {t \in ThreadIds : ths1[t].pc = "unborn" /\ ths2[t].pc # "unborn"}

\* C23: at most one export runs at a time: no two export threads started by
\* runExport are both still executing ObjExporter.export, and one Start
\* Export action (each handler step of it) starts at most one export
C23_OneExportAtATime ==
    /\ [](Cardinality({t \in ThreadIds : Exporting(threads[t])}) <= 1)
    /\ [][Cardinality(StartedBy(threads, threads')) <= 1]_vars

\* the user answers Yes to an overwrite prompt
AnswersYes ==
    \/ LastObjAnswer("YES")
    \/ LastMtlAnswer("YES")
    \/ ObjExistsAnswer("YES")
    \/ MtlExistsAnswer("YES")

\* the user answers Yes to the overwrite prompt for the .mtl file
AnswersYesMtl == LastMtlAnswer("YES") \/ MtlExistsAnswer("YES")

\* C24: an existing output file is never overwritten without consent: every
\* step that starts an export whose .obj target exists is a Yes answer to an
\* overwrite prompt, and every step that starts an export whose .mtl target
\* exists is a Yes answer to the prompt for the .mtl file
C24_OverwriteOnlyWithConsent ==
    [][\A t \in StartedBy(threads, threads') :
          /\ threads'[t].cfg.objFileName \in files => AnswersYes
          /\ (/\ threads'[t].cfg.mtlFileName \in files
              /\ threads'[t].cfg.mtlFileName # threads'[t].cfg.objFileName)
             => AnswersYesMtl]_vars

\* name.endsWith(".mtl")
EndsWithMtl(n) == Len(n) > 0 /\ n[Len(n)] = ".mtl"

\* C25: the geometry and material outputs are distinct files: after
\* sendExport on any file name the chooser can approve, Options.objFileName
\* ends with ".obj" in some letter case, Options.mtlFileName ends with ".mtl",
\* and the two names differ
C25_ObjAndMtlDistinct ==
    [][\A n \in ChooserNames :
          SendExport(SelectedFile(n)) =>
              /\ EndsWithObj(opt'.objFileName)
              /\ EndsWithMtl(opt'.mtlFileName)
              /\ opt'.mtlFileName # opt'.objFileName]_vars

\* the edges of b that the resize direction does not name are those of a
UnnamedEdgesKept(a, b, direction) ==
    /\ Includes(direction, "w") \/ b.minX = a.minX
    /\ Includes(direction, "e") \/ b.maxX = a.maxX
    /\ Includes(direction, "n") \/ b.minZ = a.minZ
    /\ Includes(direction, "s") \/ b.maxZ = a.maxZ
    /\ b.minY = a.minY
    /\ b.maxY = a.maxY

\* C21: WorldMapSelector always reports a valid rectangular region: the
\* bounds passed to onBoundsChange after a move or a resize have
\* minX <= maxX and minZ <= maxZ; a move keeps the X extent, the Z extent,
\* minY and maxY of the initial bounds; a resize changes only the edges its
\* handle direction names
C21_ReportsValidRegion ==
    reported.made =>
        /\ reported.bounds.minX <= reported.bounds.maxX
        /\ reported.bounds.minZ <= reported.bounds.maxZ
        /\ reported.kind = "move" =>
               /\ reported.bounds.maxX - reported.bounds.minX
                      = reported.from.maxX - reported.from.minX
               /\ reported.bounds.maxZ - reported.bounds.minZ
                      = reported.from.maxZ - reported.from.minZ
               /\ reported.bounds.minY = reported.from.minY
               /\ reported.bounds.maxY = reported.from.maxY
        /\ reported.kind = "resize" =>
               UnnamedEdgesKept(reported.from, reported.bounds, reported.direction)

====
